---------------------------- MODULE Spec2Model ----------------------------
(***************************************************************************)
(* Verification model of db-auto-importer: the dependency graph and its    *)
(* topological sort (internal/graph), the parent-record resolver           *)
(* (internal/database) and the CSV import driver (internal/importer).      *)
(*                                                                         *)
(* Table names are modelled as the naturals 1..NumTables; the order < on   *)
(* them stands for the lexicographic order sort.Strings uses.  The name 0  *)
(* (Absent) is a table name that is not a key of the schema map.           *)
(***************************************************************************)
EXTENDS Integers, Sequences, FiniteSets, TLC

\* Number of tables in the schema map of the graph specification.
NumTables == 3

\* Largest number of foreign keys a schema of the graph specification declares.
MaxFKs == 3

\* Largest number of EnsureParentRecordExists calls a client makes directly.
MaxCalls == 2

\* Largest number of data records in the CSV files of one import, all files together.
MaxCsvRows == 2

\* Cap on the depth of the resolver's recursion (reached on cyclic schemas only).
MaxDepth == 5

VARIABLES
    schema,     \* map[string]DBInfo: the SchemaModel handed to every component
    graph,      \* the *Graph the last NewGraph call returned
    built,      \* TRUE while that graph has not been sorted yet
    firstSort,  \* what the first TopologicalSort call of the run returned
    lastSort,   \* what the latest TopologicalSort call returned
    engine,     \* the adapter NewDBClient selected: "postgres", "mysql" or "db2"
    db,         \* the database: for each table the set of its rows
    stack,      \* per client, the active EnsureParentRecordExists calls, innermost last
    retval,     \* per client, the error value the call that just returned handed back
    calls,      \* number of top-level resolver calls made so far
    event,      \* what the latest step did
    csv,        \* for each table the lines of its CSV file, <<>> when it has none
    hasHeader,  \* the flag "CSV files have a header row"
    drv,        \* where ImportCSVFiles stands
    conv        \* a direct call of ConvertToDBType or ParseDataType: its arguments and its result

graphVars == <<graph, built, firstSort, lastSort>>

resolverVars == <<engine, db, stack, retval, calls, event>>

driverVars == <<csv, hasHeader, drv>>

vars == <<schema, graph, built, firstSort, lastSort, engine, db, stack, retval, calls, event,
          csv, hasHeader, drv, conv>>

Tables == 1..NumTables

Absent == 0

\* The importer processes that share the database.
Clients == {1, 2}

-----------------------------------------------------------------------------
(* Generic helpers *)

Range(s) == {s[i] : i \in 1..Len(s)}

\* Every ordering of the finite set S, as a sequence: the orders in which a
\* Go `range` over a map with key set S may visit the keys.
Orderings(S) == {p \in [1..Cardinality(S) -> S] : \A i, j \in 1..Cardinality(S) : p[i] = p[j] => i = j}

RECURSIVE InsertSorted(_, _)
InsertSorted(x, s) ==
    IF s = <<>> THEN <<x>>
    ELSE IF x <= Head(s) THEN <<x>> \o s
    ELSE <<Head(s)>> \o InsertSorted(x, Tail(s))

\* sort.Strings
RECURSIVE SortStrings(_)
SortStrings(s) == IF s = <<>> THEN <<>> ELSE InsertSorted(Head(s), SortStrings(Tail(s)))

-----------------------------------------------------------------------------
(* Data model: database.DBInfo, database.ForeignKeyInfo *)

ForeignKeyInfo(child, col, parent, pcol) ==
    [ConstraintName |-> "fk", TableName |-> child, ColumnName |-> col,
     ForeignTableName |-> parent, ForeignColumnName |-> pcol]

\* A table as the graph tests declare it: a name and its foreign keys only.
BareTable(t) ==
    [TableName |-> t, Columns |-> <<>>, PrimaryKeyColumns |-> <<>>,
     UniqueKeyColumns |-> <<>>, ForeignKeys |-> <<>>]

\* Every schema over Tables whose tables declare at most k foreign keys in all,
\* each from a table of the schema to a table of the schema or to Absent.
RECURSIVE GraphSchemas(_)
GraphSchemas(k) ==
    IF k = 0 THEN {[t \in Tables |-> BareTable(t)]}
    ELSE LET S == GraphSchemas(k - 1) IN
         S \cup {[s EXCEPT ![c].ForeignKeys = Append(@, ForeignKeyInfo(c, "ref", p, "id"))] :
                    s \in S, c \in Tables, p \in Tables \cup {Absent}}

-----------------------------------------------------------------------------
(* internal/graph: NewGraph and TopologicalSort *)

\* AddEdge with the edge drawn from the child to the parent (the reversal the
\* comment in NewGraph warns about).
AddEdgeReversed(nodes, fk) ==
    LET child == fk.TableName
        parent == fk.ForeignTableName
    IN  IF child \notin DOMAIN nodes \/ parent \notin DOMAIN nodes
        THEN nodes
        ELSE LET withEdge == [nodes EXCEPT ![child].Edges = Append(@, parent)]
             IN  [withEdge EXCEPT ![parent].InDegree = @ + 1]

\* AddEdge that counts a foreign key to a table outside the schema in the
\* child's in-degree instead of skipping it.
AddEdgeCountsAbsent(nodes, fk) ==
    LET child == fk.TableName
        parent == fk.ForeignTableName
    IN  IF child \notin DOMAIN nodes THEN nodes
        ELSE IF parent \notin DOMAIN nodes THEN [nodes EXCEPT ![child].InDegree = @ + 1]
        ELSE LET withEdge == [nodes EXCEPT ![parent].Edges = Append(@, child)]
             IN  [withEdge EXCEPT ![child].InDegree = @ + 1]

\* One pass of the inner loop body of NewGraph for the foreign key fk.
AddEdge(nodes, fk) ==
    LET child == fk.TableName
        parent == fk.ForeignTableName
    IN  IF child \notin DOMAIN nodes \/ parent \notin DOMAIN nodes
        THEN nodes
        ELSE LET withEdge == [nodes EXCEPT ![parent].Edges = Append(@, child)]
             IN  [withEdge EXCEPT ![child].InDegree = @ + 1]

RECURSIVE AddEdges(_, _)
AddEdges(nodes, fks) ==
    IF fks = <<>> THEN nodes ELSE AddEdges(AddEdge(nodes, Head(fks)), Tail(fks))

RECURSIVE AddTables(_, _, _)
AddTables(nodes, schemaInfo, iter) ==
    IF iter = <<>> THEN nodes
    ELSE AddTables(AddEdges(nodes, schemaInfo[Head(iter)].ForeignKeys), schemaInfo, Tail(iter))

\* NewGraph(schemaInfo); iter is the order in which `for _, dbInfo := range
\* schemaInfo` visits the map.
NewGraph(schemaInfo, iter) ==
    [Nodes |-> AddTables([t \in DOMAIN schemaInfo |-> [TableName |-> t, Edges |-> <<>>, InDegree |-> 0]],
                         schemaInfo, iter)]

\* The inner loop of TopologicalSort over the dequeued node's Edges.
RECURSIVE Relax(_, _, _)
Relax(edges, deg, queue) ==
    IF edges = <<>> THEN [deg |-> deg, queue |-> queue]
    ELSE LET n == Head(edges)
             d == [deg EXCEPT ![n] = @ - 1]
         IN  Relax(Tail(edges), d, IF d[n] = 0 THEN Append(queue, n) ELSE queue)

\* The `for len(queue) > 0` loop of TopologicalSort.
RECURSIVE Drain(_, _, _, _)
Drain(g, queue, order, deg) ==
    IF queue = <<>> THEN order
    ELSE LET tableName == Head(queue)
             r == Relax(g.Nodes[tableName].Edges, deg, Tail(queue))
         IN  Drain(g, r.queue, Append(order, tableName), r.deg)

\* CycleCheck that reports a cycle only when nothing at all could be ordered.
CycleCheckEmptyOnly(g, order) ==
    IF Len(order) = 0 /\ Cardinality(DOMAIN g.Nodes) # 0
    THEN [order |-> <<>>, err |-> "cycle detected"]
    ELSE [order |-> order, err |-> ""]

\* The final cycle check of TopologicalSort: (nil, error) or (order, nil).
CycleCheck(g, order) ==
    IF Len(order) # Cardinality(DOMAIN g.Nodes)
    THEN [order |-> <<>>, err |-> "cycle detected"]
    ELSE [order |-> order, err |-> ""]

\* (g *Graph) TopologicalSort(); iter is the order in which `range
\* currentInDegrees` visits the map while the zero in-degree nodes are collected.
TopologicalSort(g, iter) ==
    LET currentInDegrees == [t \in DOMAIN g.Nodes |-> g.Nodes[t].InDegree]
        initialZeroInDegreeNodes == SelectSeq(iter, LAMBDA t : currentInDegrees[t] = 0)
        queue == SortStrings(initialZeroInDegreeNodes)
    IN  CycleCheck(g, Drain(g, queue, <<>>, currentInDegrees))

NoSort == [order |-> <<>>, err |-> "not run"]

NoGraph == [Nodes |-> <<>>]

NoFiles == <<>>

\* ImportCSVFiles has not been called.
IdleDriver ==
    [pc |-> "idle", run |-> 0, order |-> <<>>, tblIdx |-> 0, rowIdx |-> 0, colIdx |-> 0,
     values |-> <<>>, resolved |-> {}, stmt |-> "", firstRun |-> <<>>]

\* ConvertToDBType has not been called on its own.
NoConversion ==
    [pc |-> "idle", csvValue |-> "", dataType |-> "STRING", isNullable |-> FALSE,
     columnDefault |-> [Valid |-> FALSE, String |-> ""],
     result |-> [val |-> [kind |-> "nil", i |-> 0, s |-> ""], err |-> ""]]

-----------------------------------------------------------------------------
(* Graph specification: NewGraph(schema).TopologicalSort(), any number of times *)

SortInit ==
    /\ schema \in GraphSchemas(MaxFKs)
    /\ graph = NoGraph
    /\ built = FALSE
    /\ firstSort = NoSort
    /\ lastSort = NoSort
    /\ engine = "postgres"
    /\ db = [t \in DOMAIN schema |-> {}]
    /\ stack = [p \in Clients |-> <<>>]
    /\ retval = [p \in Clients |-> "none"]
    /\ calls = 0
    /\ event = "none"
    /\ csv = NoFiles
    /\ hasHeader = FALSE
    /\ drv = IdleDriver
    /\ conv = NoConversion

\* graph.NewGraph(i.DBSchema)
BuildGraph ==
    /\ ~built
    /\ \E iter \in Orderings(DOMAIN schema) : graph' = NewGraph(schema, iter)
    /\ built' = TRUE
    /\ UNCHANGED <<schema, conv, firstSort, lastSort>>
    /\ UNCHANGED resolverVars
    /\ UNCHANGED driverVars

\* dependencyGraph.TopologicalSort()
SortGraph ==
    /\ built
    /\ \E iter \in Orderings(DOMAIN graph.Nodes) :
          /\ lastSort' = TopologicalSort(graph, iter)
          /\ firstSort' = IF firstSort = NoSort THEN lastSort' ELSE firstSort
    /\ built' = FALSE
    /\ UNCHANGED <<schema, conv, graph>>
    /\ UNCHANGED resolverVars
    /\ UNCHANGED driverVars

SortNext == BuildGraph \/ SortGraph

SortSpec == SortInit /\ [][SortNext]_vars

-----------------------------------------------------------------------------
(* Resort specification: TopologicalSort called again on the same *Graph *)

\* internal/graph/graph.go holds TopologicalSort without the temporary map:
\* its inner loop decrements the InDegree field of the neighbour's Node.
RECURSIVE RelaxInPlace(_, _, _)
RelaxInPlace(edges, nodes, queue) ==
    IF edges = <<>> THEN [nodes |-> nodes, queue |-> queue]
    ELSE LET n == Head(edges)
             decremented == [nodes EXCEPT ![n].InDegree = @ - 1]
         IN  RelaxInPlace(Tail(edges), decremented,
                          IF decremented[n].InDegree = 0 THEN Append(queue, n) ELSE queue)

\* Its `for len(queue) > 0` loop.
RECURSIVE DrainInPlace(_, _, _)
DrainInPlace(nodes, queue, order) ==
    IF queue = <<>> THEN [nodes |-> nodes, order |-> order]
    ELSE LET r == RelaxInPlace(nodes[Head(queue)].Edges, nodes, Tail(queue))
         IN  DrainInPlace(r.nodes, r.queue, Append(order, Head(queue)))

\* TopologicalSort of graph.go: the queue starts with the nodes of in-degree 0
\* in the order `range g.Nodes` visits them; the result and the graph the call
\* leaves behind.
TopologicalSortInPlace(g, iter) ==
    LET queue == SelectSeq(iter, LAMBDA t : g.Nodes[t].InDegree = 0)
        drained == DrainInPlace(g.Nodes, queue, <<>>)
    IN  [result |-> CycleCheck(g, drained.order), graph |-> [Nodes |-> drained.nodes]]

\* TopologicalSort of part_002 is called on the graph built before;
\* `calls` counts the calls made on that graph.
SortAgain ==
    /\ built
    /\ calls < MaxCalls
    /\ \E iter \in Orderings(DOMAIN graph.Nodes) :
          /\ lastSort' = TopologicalSort(graph, iter)
          /\ firstSort' = IF firstSort = NoSort THEN lastSort' ELSE firstSort
    /\ calls' = calls + 1
    /\ UNCHANGED <<schema, conv, graph, built, engine, db, stack, retval, event>>
    /\ UNCHANGED driverVars

\* TopologicalSort of graph.go is called on the graph built before.
SortInPlace ==
    /\ built
    /\ calls < MaxCalls
    /\ \E iter \in Orderings(DOMAIN graph.Nodes) :
          LET sorted == TopologicalSortInPlace(graph, iter)
          IN  /\ lastSort' = sorted.result
              /\ firstSort' = IF firstSort = NoSort THEN lastSort' ELSE firstSort
              /\ graph' = sorted.graph
    /\ calls' = calls + 1
    /\ UNCHANGED <<schema, conv, built, engine, db, stack, retval, event>>
    /\ UNCHANGED driverVars

ResortNext == BuildGraph \/ SortAgain \/ SortInPlace

ResortSpec == SortInit /\ [][ResortNext]_vars

-----------------------------------------------------------------------------
(* Values: what a Go interface{} bound to a statement parameter can hold *)

\* Every value is a record of the same shape: its dynamic Go type, and its
\* content as an integer (int, int64, bool) or as canonical text (string,
\* float64, time.Time).
NULL == [kind |-> "nil", i |-> 0, s |-> ""]

Str(s) == [kind |-> "string", i |-> 0, s |-> s]

Int64(n) == [kind |-> "int64", i |-> n, s |-> ""]

GoInt(n) == [kind |-> "int", i |-> n, s |-> ""]

Float64(s) == [kind |-> "float64", i |-> 0, s |-> s]

Bool(b) == [kind |-> "bool", i |-> IF b THEN 1 ELSE 0, s |-> ""]

Time(s) == [kind |-> "time", i |-> 0, s |-> s]

\* sql.NullString
NullString(valid, s) == [Valid |-> valid, String |-> s]

NoDefault == NullString(FALSE, "")

\* Decimal texts and the integers strconv.ParseInt(s, 10, 64) reads from them;
\* every other text of the model is a syntax error.
Decimals == <<"0", "1", "2", "3", "4", "5", "6", "7", "8", "9">>

ParseInt(s) ==
    IF \E n \in 1..Len(Decimals) : Decimals[n] = s
    THEN [ok |-> TRUE, n |-> (CHOOSE n \in 1..Len(Decimals) : Decimals[n] = s) - 1]
    ELSE IF s \in {"01", "+1"} THEN [ok |-> TRUE, n |-> 1]
    ELSE IF s = "-0" THEN [ok |-> TRUE, n |-> 0]
    ELSE [ok |-> FALSE, n |-> 0]

\* strconv.FormatInt(v, 10) and fmt.Sprintf("%v", v) of an int
FormatInt(n) == IF n + 1 \in 1..Len(Decimals) THEN Decimals[n + 1] ELSE "big"

\* strconv.ParseFloat(s, 64); the float is kept as its shortest decimal text.
ParseFloat(s) ==
    IF ParseInt(s).ok THEN [ok |-> TRUE, f |-> FormatInt(ParseInt(s).n)]
    ELSE IF s \in {"1.5", "1.50"} THEN [ok |-> TRUE, f |-> "1.5"]
    ELSE IF s = "0.0" THEN [ok |-> TRUE, f |-> "0"]
    ELSE [ok |-> FALSE, f |-> ""]

\* strconv.ParseBool
ParseBool(s) ==
    IF s \in {"1", "t", "T", "TRUE", "true", "True"} THEN [ok |-> TRUE, b |-> TRUE]
    ELSE IF s \in {"0", "f", "F", "FALSE", "false", "False"} THEN [ok |-> TRUE, b |-> FALSE]
    ELSE [ok |-> FALSE, b |-> FALSE]

\* strings.ToLower on the texts of the model
ToLower(s) ==
    CASE s \in {"YES", "Yes"} -> "yes"
      [] s = "Y" -> "y"
      [] s \in {"NO", "No"} -> "no"
      [] s = "N" -> "n"
      [] OTHER -> s

ZeroTime == "0001-01-01T00:00:00Z"

\* time.Parse("2006-01-02", s)
ParseDate(s) ==
    IF s = "2024-01-02" THEN [ok |-> TRUE, t |-> "2024-01-02T00:00:00Z"]
    ELSE [ok |-> FALSE, t |-> ZeroTime]

\* time.Parse(time.RFC3339, s)
ParseRFC3339(s) ==
    IF s \in {"2024-01-02T03:04:05Z", "2024-01-02T00:00:00Z", ZeroTime}
    THEN [ok |-> TRUE, t |-> s]
    ELSE [ok |-> FALSE, t |-> ZeroTime]

\* time.Parse("2006-01-02 15:04:05", s)
ParseDateTime(s) ==
    IF s = "2024-01-02 03:04:05" THEN [ok |-> TRUE, t |-> "2024-01-02T03:04:05Z"]
    ELSE [ok |-> FALSE, t |-> ZeroTime]

Converted(v) == [val |-> v, err |-> ""]

ConvertError(msg) == [val |-> NULL, err |-> msg]

\* The `if csvValue == "" && !isNullable` switch of ConvertToDBType.
ZeroValue(dataType) ==
    CASE dataType = "STRING" -> Converted(Str(""))
      [] dataType = "INTEGER" -> Converted(GoInt(0))
      [] dataType = "FLOAT" -> Converted(Float64("0"))
      [] dataType = "BOOLEAN" -> Converted(Bool(FALSE))
      [] dataType \in {"DATE", "TIMESTAMP"} -> Converted(Time(ZeroTime))
      [] OTHER -> ConvertError("non-nullable column with no default and empty CSV value")

\* The final `switch dataType` of ConvertToDBType.
ParseValue(csvValue, dataType) ==
    CASE dataType = "STRING" -> Converted(Str(csvValue))
      [] dataType = "INTEGER" ->
            IF ParseInt(csvValue).ok THEN Converted(Int64(ParseInt(csvValue).n))
            ELSE ConvertError("failed to convert to integer")
      [] dataType = "FLOAT" ->
            IF ParseFloat(csvValue).ok THEN Converted(Float64(ParseFloat(csvValue).f))
            ELSE ConvertError("failed to convert to float")
      [] dataType = "BOOLEAN" ->
            IF ParseBool(csvValue).ok THEN Converted(Bool(ParseBool(csvValue).b))
            ELSE IF ToLower(csvValue) \in {"true", "t", "1", "yes", "y"} THEN Converted(Bool(TRUE))
            ELSE IF ToLower(csvValue) \in {"false", "f", "0", "no", "n"} THEN Converted(Bool(FALSE))
            ELSE ConvertError("failed to convert to boolean")
      [] dataType = "DATE" ->
            IF ParseDate(csvValue).ok THEN Converted(Time(ParseDate(csvValue).t))
            ELSE ConvertError("failed to convert to date")
      [] dataType = "TIMESTAMP" ->
            IF ParseRFC3339(csvValue).ok THEN Converted(Time(ParseRFC3339(csvValue).t))
            ELSE IF ParseDateTime(csvValue).ok THEN Converted(Time(ParseDateTime(csvValue).t))
            ELSE ConvertError("failed to convert to timestamp")
      [] OTHER -> ConvertError("unsupported data type")

\* The declared default is substituted before the nullable test.
ConvertToDBTypeDefaultFirst(csvValue, dataType, isNullable, columnDefault) ==
    LET value == IF csvValue = "" /\ columnDefault.Valid THEN columnDefault.String ELSE csvValue
    IN  IF value = "" /\ isNullable THEN Converted(NULL)
        ELSE IF value = "" THEN ZeroValue(dataType)
        ELSE ParseValue(value, dataType)

\* database.ConvertToDBType
ConvertToDBType(csvValue, dataType, isNullable, columnDefault) ==
    IF csvValue = "" /\ isNullable THEN Converted(NULL)
    ELSE LET value == IF csvValue = "" /\ columnDefault.Valid THEN columnDefault.String ELSE csvValue
         IN  IF value = "" /\ ~isNullable THEN ZeroValue(dataType)
             ELSE ParseValue(value, dataType)

\* The type switch of ensureParentRecordExistsCommon that turns a prepared
\* value back into the text handed to the recursive call.
FormatValue(v) ==
    CASE v.kind = "int64" -> FormatInt(v.i)
      [] v.kind = "float64" -> v.s
      [] v.kind = "bool" -> IF v.i = 1 THEN "true" ELSE "false"
      [] v.kind = "time" -> v.s
      [] v.kind = "string" -> v.s
      [] OTHER -> FormatInt(v.i)

-----------------------------------------------------------------------------
(* Schemas of the resolver and import specifications *)

ColumnInfo(name, dataType, isNullable, columnDefault) ==
    [ColumnName |-> name, DataType |-> dataType, IsNullable |-> isNullable, ColumnDefault |-> columnDefault]

\* The three tables of the family: 1 is referenced by 2, 2 is referenced by 3.
FamilyTables == {1, 2, 3}

Shapes == {"chain", "dangling", "self", "cycle", "fork"}

\* The tables the foreign keys of table t reference, in declaration order.
Targets(shape, t) ==
    CASE t = 1 /\ shape = "dangling" -> <<Absent>>
      [] t = 1 /\ shape = "self" -> <<1>>
      [] t = 1 /\ shape = "cycle" -> <<3>>
      [] t = 1 /\ shape \in {"chain", "fork"} -> <<>>
      [] t = 2 -> <<1>>
      [] t = 3 /\ shape = "fork" -> <<2, 1>>
      [] OTHER -> <<2>>

RefColumns == <<"ref", "ref2">>

\* A table with an integer primary key `id`, one integer column per foreign
\* key, each referencing the `id` of its target, and, when withCode, a column
\* `code` that is NOT NULL, UNIQUE and has the default 'd'.
FamilyTable(t, targets, refNullable, withCode) ==
    [TableName |-> t,
     Columns |-> <<ColumnInfo("id", "INTEGER", FALSE, NoDefault)>>
                 \o [k \in 1..Len(targets) |-> ColumnInfo(RefColumns[k], "INTEGER", refNullable, NoDefault)]
                 \o (IF withCode THEN <<ColumnInfo("code", "STRING", FALSE, NullString(TRUE, "d"))>> ELSE <<>>),
     PrimaryKeyColumns |-> <<"id">>,
     UniqueKeyColumns |-> IF withCode THEN << <<"code">> >> ELSE <<>>,
     ForeignKeys |-> [k \in 1..Len(targets) |-> ForeignKeyInfo(t, RefColumns[k], targets[k], "id")]]

\* uniqueDefault gives the `code` column to the referenced tables 1 and 2.
FamilySchema(shape, refNullable, uniqueDefault) ==
    [t \in FamilyTables |-> FamilyTable(t, Targets(shape, t), refNullable, uniqueDefault /\ t # 3)]

FamilySchemas ==
    {FamilySchema(shape, n, u) : shape \in Shapes, n \in BOOLEAN, u \in BOOLEAN}

\* The schemas an import is run on: the chain in every variant, the dangling
\* reference with and without NOT NULL, the other shapes with nullable
\* references and without the `code` column.
ImportSchemas ==
    {FamilySchema("chain", n, u) : n \in BOOLEAN, u \in BOOLEAN}
    \cup {FamilySchema("dangling", n, FALSE) : n \in BOOLEAN}
    \cup {FamilySchema(shape, TRUE, FALSE) : shape \in {"fork", "self", "cycle"}}

Engines == {"postgres", "mysql", "db2"}

\* The texts a foreign-key reference is made with.
KeyTexts == {"1", "2"}

-----------------------------------------------------------------------------
(* The database: constraints and the statements the adapters send *)

\* Index of the column named name in dbInfo.Columns, 0 when there is none.
ColumnIndex(dbInfo, name) ==
    IF \E i \in 1..Len(dbInfo.Columns) : dbInfo.Columns[i].ColumnName = name
    THEN CHOOSE i \in 1..Len(dbInfo.Columns) : dbInfo.Columns[i].ColumnName = name
    ELSE 0

\* What the database stores for a bound parameter: Go's int and int64 are the
\* same integer to the driver.
StoredCell(v) == IF v.kind = "int" THEN Int64(v.i) ELSE v

StoredRow(values) == [i \in 1..Len(values) |-> StoredCell(values[i])]

NotNullViolation(dbInfo, row) ==
    \E i \in 1..Len(row) : ~dbInfo.Columns[i].IsNullable /\ row[i] = NULL

\* The primary key and the unique constraints, each a sequence of column names.
UniqueConstraints(dbInfo) ==
    (IF dbInfo.PrimaryKeyColumns = <<>> THEN {} ELSE {dbInfo.PrimaryKeyColumns})
    \cup Range(dbInfo.UniqueKeyColumns)

\* row r agrees with `row` on every column of the constraint (NULLs never agree).
SameKey(dbInfo, r, row, constraint) ==
    \A c \in Range(constraint) :
        /\ row[ColumnIndex(dbInfo, c)] # NULL
        /\ r[ColumnIndex(dbInfo, c)] = row[ColumnIndex(dbInfo, c)]

UniqueViolation(dbInfo, rows, row) ==
    \E constraint \in UniqueConstraints(dbInfo) : \E r \in rows : SameKey(dbInfo, r, row, constraint)

\* Some row of table t holds value v in the column named col.
RowWith(schemaInfo, database, t, col, v) ==
    \E r \in database[t] : r[ColumnIndex(schemaInfo[t], col)] = v

\* A foreign key of the row references no row, the row itself included.
ForeignKeyViolation(schemaInfo, database, dbInfo, row) ==
    \E fk \in Range(dbInfo.ForeignKeys) :
        LET v == row[ColumnIndex(dbInfo, fk.ColumnName)]
        IN  /\ fk.ForeignTableName \in DOMAIN schemaInfo
            /\ v # NULL
            /\ ~RowWith(schemaInfo, database, fk.ForeignTableName, fk.ForeignColumnName, v)
            /\ ~(fk.ForeignTableName = dbInfo.TableName
                 /\ row[ColumnIndex(dbInfo, fk.ForeignColumnName)] = v)

Executed(database, err) == [db |-> database, err |-> err]

AddRow(database, t, row) == [database EXCEPT ![t] = @ \cup {row}]

\* INSERT INTO t (...) VALUES (...): every violated constraint is an error.
PlainInsert(schemaInfo, database, dbInfo, values) ==
    LET row == StoredRow(values)
    IN  IF NotNullViolation(dbInfo, row) THEN Executed(database, "not-null violation")
        ELSE IF UniqueViolation(dbInfo, database[dbInfo.TableName], row)
             THEN Executed(database, "duplicate key")
        ELSE IF ForeignKeyViolation(schemaInfo, database, dbInfo, row)
             THEN Executed(database, "foreign key violation")
        ELSE Executed(AddRow(database, dbInfo.TableName, row), "")

\* INSERT ... ON CONFLICT DO NOTHING: a conflict with any unique constraint
\* leaves the table as it is and is no error.
InsertOnConflictDoNothing(schemaInfo, database, dbInfo, values) ==
    LET row == StoredRow(values)
    IN  IF NotNullViolation(dbInfo, row) THEN Executed(database, "not-null violation")
        ELSE IF UniqueViolation(dbInfo, database[dbInfo.TableName], row)
             THEN Executed(database, "")
        ELSE IF ForeignKeyViolation(schemaInfo, database, dbInfo, row)
             THEN Executed(database, "foreign key violation")
        ELSE Executed(AddRow(database, dbInfo.TableName, row), "")

\* The implicit default INSERT IGNORE stores for a NULL in a NOT NULL column.
ImplicitDefault(column, v) ==
    IF v = NULL /\ ~column.IsNullable /\ ZeroValue(column.DataType).err = ""
    THEN StoredCell(ZeroValue(column.DataType).val)
    ELSE v

\* INSERT IGNORE: duplicate keys and missing referenced rows skip the row
\* with a warning; a NULL for a NOT NULL column becomes the implicit default.
InsertIgnore(schemaInfo, database, dbInfo, values) ==
    LET row == [i \in 1..Len(values) |-> ImplicitDefault(dbInfo.Columns[i], StoredCell(values[i]))]
    IN  IF \/ UniqueViolation(dbInfo, database[dbInfo.TableName], row)
           \/ ForeignKeyViolation(schemaInfo, database, dbInfo, row)
        THEN Executed(database, "")
        ELSE Executed(AddRow(database, dbInfo.TableName, row), "")

\* The insert each adapter's EnsureParentRecordExists executes.
InsertParentRecord(eng, schemaInfo, database, dbInfo, values) ==
    CASE eng = "postgres" -> InsertOnConflictDoNothing(schemaInfo, database, dbInfo, values)
      [] eng = "mysql" -> InsertIgnore(schemaInfo, database, dbInfo, values)
      [] OTHER -> PlainInsert(schemaInfo, database, dbInfo, values)

\* The value the database compares a column of the type with when it is
\* handed a text parameter: a text column is compared with the text as it
\* is; for the other types the text is read as a literal of the type, and
\* blanks around it are ignored.
DatabaseCast(value, dataType) ==
    LET trimmed == CASE value = " 1" -> "1"
                     [] value = " 2" -> "2"
                     [] OTHER -> value
    IN  IF dataType = "STRING" THEN Converted(Str(value)) ELSE ParseValue(trimmed, dataType)

\* ParentRecordExists: SELECT ... WHERE columnName = <value>; the database
\* casts the text parameter to the column's type.
ParentRecordExists(database, dbInfo, columnName, value) ==
    LET idx == ColumnIndex(dbInfo, columnName)
        param == IF idx = 0 THEN ConvertError("no such column")
                 ELSE DatabaseCast(value, dbInfo.Columns[idx].DataType)
    IN  IF param.err # "" THEN [exists |-> FALSE, err |-> "failed to check existence of record"]
        ELSE [exists |-> \E r \in database[dbInfo.TableName] : r[idx] = StoredCell(param.val),
              err |-> ""]

-----------------------------------------------------------------------------
(* internal/database: EnsureParentRecordExists *)

\* uniqueColsMap of ensureParentRecordExistsCommon
UniqueColsMap(dbInfo) ==
    Range(dbInfo.PrimaryKeyColumns)
    \cup {ukCols[1] : ukCols \in {u \in Range(dbInfo.UniqueKeyColumns) : Len(u) = 1}}

\* The values generateRandomValue may return for a column of the type; nil
\* (after the logged error) for a type it does not support.
RandomValues(dataType) ==
    CASE dataType = "STRING" -> {Str("r1"), Str("r2")}
      [] dataType = "INTEGER" -> {Int64(8), Int64(9)}
      [] dataType = "FLOAT" -> {Float64("0.5")}
      [] dataType = "BOOLEAN" -> {Bool(TRUE), Bool(FALSE)}
      [] dataType \in {"DATE", "TIMESTAMP"} -> {Time("2024-01-02T03:04:05Z")}
      [] OTHER -> {NULL}

\* The columns of the parent row that get a random value.
RandomColumns(dbInfo, foreignColumnName) ==
    {i \in 1..Len(dbInfo.Columns) :
        /\ dbInfo.Columns[i].ColumnName # foreignColumnName
        /\ ~dbInfo.Columns[i].ColumnDefault.Valid
        /\ dbInfo.Columns[i].ColumnName \in UniqueColsMap(dbInfo)
        /\ ~dbInfo.Columns[i].IsNullable}

\* Every outcome of the calls to generateRandomValue for one parent row.
RandomChoices(dbInfo, foreignColumnName) ==
    LET cols == RandomColumns(dbInfo, foreignColumnName)
        pool == UNION {RandomValues(dbInfo.Columns[i].DataType) : i \in cols}
    IN  {rnd \in [cols -> pool] : \A i \in cols : rnd[i] \in RandomValues(dbInfo.Columns[i].DataType)}

\* `val = nil` after a failed conversion
\* A failed conversion gives the number zero.
ValueOrNilUsesZero(converted) == IF converted.err # "" THEN Int64(0) ELSE converted.val

ValueOrNil(converted) == IF converted.err # "" THEN NULL ELSE converted.val

\* A column without a value of its own gets the zero value of its type even
\* when it is nullable.
ParentValuesNeverNull(dbInfo, foreignColumnName, foreignKeyValue, rnd) ==
    [i \in 1..Len(dbInfo.Columns) |->
        LET colInfo == dbInfo.Columns[i]
        IN  IF colInfo.ColumnName = foreignColumnName
            THEN ValueOrNil(ConvertToDBType(foreignKeyValue, colInfo.DataType, colInfo.IsNullable, colInfo.ColumnDefault))
            ELSE IF colInfo.ColumnDefault.Valid
            THEN ValueOrNil(ConvertToDBType(colInfo.ColumnDefault.String, colInfo.DataType, colInfo.IsNullable, colInfo.ColumnDefault))
            ELSE IF colInfo.ColumnName \in UniqueColsMap(dbInfo) /\ ~colInfo.IsNullable
            THEN rnd[i]
            ELSE ValueOrNil(ZeroValue(colInfo.DataType))]

\* The first loop of ensureParentRecordExistsCommon: parentValues.
ParentValues(dbInfo, foreignColumnName, foreignKeyValue, rnd) ==
    [i \in 1..Len(dbInfo.Columns) |->
        LET colInfo == dbInfo.Columns[i]
        IN  IF colInfo.ColumnName = foreignColumnName
            THEN ValueOrNil(ConvertToDBType(foreignKeyValue, colInfo.DataType, colInfo.IsNullable, colInfo.ColumnDefault))
            ELSE IF colInfo.ColumnDefault.Valid
            THEN ValueOrNil(ConvertToDBType(colInfo.ColumnDefault.String, colInfo.DataType, colInfo.IsNullable, colInfo.ColumnDefault))
            ELSE IF colInfo.ColumnName \in UniqueColsMap(dbInfo) /\ ~colInfo.IsNullable
            THEN rnd[i]
            ELSE ValueOrNil(ConvertToDBType("", colInfo.DataType, colInfo.IsNullable, colInfo.ColumnDefault))]

\* One activation of EnsureParentRecordExists(schema[t], col, v, schema).
\* pc is where the activation stands: at the existence probe, in the loop over
\* the parent's foreign keys (fkIdx the one in hand), or at the insert.
\* `ensured` records the foreign keys whose recursive call has returned nil.
Frame(t, col, v) ==
    [table |-> t, column |-> col, value |-> v, pc |-> "probe", fkIdx |-> 0,
     values |-> <<>>, ensured |-> {}]

Top(p) == stack[p][Len(stack[p])]

Pop(s) == SubSeq(s, 1, Len(s) - 1)

ReplaceTop(s, frame) == [s EXCEPT ![Len(s)] = frame]

\* The probe result decides wrongly: a found row is treated as missing.
ProbeOutcomeIgnoresExists(res) == IF res.err # "" THEN "error" ELSE "absent"

\* The two `if` statements after the probe in EnsureParentRecordExists.
ProbeOutcome(res) ==
    IF res.err # "" THEN "error" ELSE IF res.exists THEN "found" ELSE "absent"

\* The recursion descends into the table that declares the foreign key.
CalleeTableIsDeclaring(fk) == fk.TableName

\* dbSchema[fk.ForeignTableName]: the table the recursive call is made for.
CalleeTable(fk) == fk.ForeignTableName

\* The recursive call's error is dropped and the loop goes on.
AfterRecursiveCallIgnoresError(err) == "continue"

\* `if err != nil { return ... }` after the recursive call.
AfterRecursiveCall(err) == IF err = "err" THEN "return" ELSE "continue"

\* The loop over parentDBInfo.ForeignKeys moves to its next element, or ends
\* and hands the prepared values to the adapter's insert.
NextForeignKey(frame, dbInfo) ==
    IF frame.fkIdx + 1 > Len(dbInfo.ForeignKeys)
    THEN [frame EXCEPT !.fkIdx = frame.fkIdx + 1, !.pc = "insert"]
    ELSE [frame EXCEPT !.fkIdx = frame.fkIdx + 1, !.pc = "fks"]

\* A client calls EnsureParentRecordExists for table t and key text v.
EnsureCall(p, t, v) ==
    /\ stack[p] = <<>>
    /\ calls < MaxCalls
    /\ stack' = [stack EXCEPT ![p] = <<Frame(t, "id", v)>>]
    /\ retval' = [retval EXCEPT ![p] = "none"]
    /\ calls' = calls + 1
    /\ event' = "call"
    /\ UNCHANGED <<schema, conv, graphVars, driverVars, engine, db>>

\* The conversion of the key text to the type of the triggering column.
KeyConversion(frame) ==
    LET dbInfo == schema[frame.table]
        idx == ColumnIndex(dbInfo, frame.column)
    IN  IF idx = 0 THEN ConvertError("no such column")
        ELSE ConvertToDBType(frame.value, dbInfo.Columns[idx].DataType,
                             dbInfo.Columns[idx].IsNullable, dbInfo.Columns[idx].ColumnDefault)

\* A key text that cannot be converted makes the resolver return an error.
EnsureProbeRejectsUnconvertible(p) ==
    /\ stack[p] # <<>>
    /\ retval[p] = "none"
    /\ Top(p).pc = "probe"
    /\ LET frame == Top(p)
           dbInfo == schema[frame.table]
           outcome == ProbeOutcome(ParentRecordExists(db, dbInfo, frame.column, frame.value))
       IN  CASE outcome = "error" \/ (outcome = "absent" /\ KeyConversion(frame).err # "") ->
                    /\ stack' = [stack EXCEPT ![p] = Pop(@)]
                    /\ retval' = [retval EXCEPT ![p] = "err"]
                    /\ event' = "probe-error"
             [] outcome = "found" ->
                    /\ stack' = [stack EXCEPT ![p] = Pop(@)]
                    /\ retval' = [retval EXCEPT ![p] = "ok"]
                    /\ event' = "probe-hit"
             [] OTHER ->
                    /\ \E rnd \in RandomChoices(dbInfo, frame.column) :
                          stack' = [stack EXCEPT ![p] = ReplaceTop(@,
                                      NextForeignKey([frame EXCEPT !.values =
                                          ParentValues(dbInfo, frame.column, frame.value, rnd)], dbInfo))]
                    /\ retval' = retval
                    /\ event' = "probe-miss"
    /\ UNCHANGED <<schema, conv, graphVars, driverVars, engine, db, calls>>

\* The existence probe and, when no row is found, the preparation of the
\* parent row's values.
EnsureProbe(p) ==
    /\ stack[p] # <<>>
    /\ retval[p] = "none"
    /\ Top(p).pc = "probe"
    /\ LET frame == Top(p)
           dbInfo == schema[frame.table]
           outcome == ProbeOutcome(ParentRecordExists(db, dbInfo, frame.column, frame.value))
       IN  CASE outcome = "error" ->
                    /\ stack' = [stack EXCEPT ![p] = Pop(@)]
                    /\ retval' = [retval EXCEPT ![p] = "err"]
                    /\ event' = "probe-error"
             [] outcome = "found" ->
                    /\ stack' = [stack EXCEPT ![p] = Pop(@)]
                    /\ retval' = [retval EXCEPT ![p] = "ok"]
                    /\ event' = "probe-hit"
             [] OTHER ->
                    /\ \E rnd \in RandomChoices(dbInfo, frame.column) :
                          stack' = [stack EXCEPT ![p] = ReplaceTop(@,
                                      NextForeignKey([frame EXCEPT !.values =
                                          ParentValues(dbInfo, frame.column, frame.value, rnd)], dbInfo))]
                    /\ retval' = retval
                    /\ event' = "probe-miss"
    /\ UNCHANGED <<schema, conv, graphVars, driverVars, engine, db, calls>>

\* A zero value in the owning column is treated like NULL: no recursive call.
EnsureForeignKeySkipsZero(p) ==
    /\ stack[p] # <<>>
    /\ retval[p] = "none"
    /\ Top(p).pc = "fks"
    /\ LET frame == Top(p)
           dbInfo == schema[frame.table]
           fk == dbInfo.ForeignKeys[frame.fkIdx]
           fkColIdx == ColumnIndex(dbInfo, fk.ColumnName)
       IN  IF fkColIdx = 0 \/ frame.values[fkColIdx] \in {NULL, GoInt(0), Str(""), Bool(FALSE)}
           THEN /\ stack' = [stack EXCEPT ![p] = ReplaceTop(@, NextForeignKey(frame, dbInfo))]
                /\ retval' = retval
                /\ event' = "fk-skipped"
           ELSE IF CalleeTable(fk) \notin DOMAIN schema
           THEN /\ stack' = [stack EXCEPT ![p] = Pop(@)]
                /\ retval' = [retval EXCEPT ![p] = "err"]
                /\ event' = "missing-table"
           ELSE /\ Len(stack[p]) < MaxDepth
                /\ stack' = [stack EXCEPT ![p] = Append(@,
                                Frame(CalleeTable(fk), fk.ForeignColumnName, FormatValue(frame.values[fkColIdx])))]
                /\ retval' = retval
                /\ event' = "recurse"
    /\ UNCHANGED <<schema, conv, graphVars, driverVars, engine, db, calls>>

\* One pass of the loop over the parent's foreign keys, up to the recursive call.
EnsureForeignKey(p) ==
    /\ stack[p] # <<>>
    /\ retval[p] = "none"
    /\ Top(p).pc = "fks"
    /\ LET frame == Top(p)
           dbInfo == schema[frame.table]
           fk == dbInfo.ForeignKeys[frame.fkIdx]
           fkColIdx == ColumnIndex(dbInfo, fk.ColumnName)
       IN  IF fkColIdx = 0 \/ frame.values[fkColIdx] = NULL
           THEN /\ stack' = [stack EXCEPT ![p] = ReplaceTop(@, NextForeignKey(frame, dbInfo))]
                /\ retval' = retval
                /\ event' = "fk-skipped"
           ELSE IF CalleeTable(fk) \notin DOMAIN schema
           THEN /\ stack' = [stack EXCEPT ![p] = Pop(@)]
                /\ retval' = [retval EXCEPT ![p] = "err"]
                /\ event' = "missing-table"
           ELSE /\ Len(stack[p]) < MaxDepth
                /\ stack' = [stack EXCEPT ![p] = Append(@,
                                Frame(CalleeTable(fk), fk.ForeignColumnName, FormatValue(frame.values[fkColIdx])))]
                /\ retval' = retval
                /\ event' = "recurse"
    /\ UNCHANGED <<schema, conv, graphVars, driverVars, engine, db, calls>>

\* A recursive call has returned to the activation that made it.
EnsureReturn(p) ==
    /\ stack[p] # <<>>
    /\ retval[p] # "none"
    /\ LET frame == Top(p)
           dbInfo == schema[frame.table]
       IN  IF AfterRecursiveCall(retval[p]) = "return"
           THEN /\ stack' = [stack EXCEPT ![p] = Pop(@)]
                /\ retval' = retval
                /\ event' = "propagated"
           ELSE /\ stack' = [stack EXCEPT ![p] = ReplaceTop(@,
                                NextForeignKey([frame EXCEPT !.ensured =
                                    IF retval[p] = "ok" THEN @ \cup {frame.fkIdx} ELSE @], dbInfo))]
                /\ retval' = [retval EXCEPT ![p] = "none"]
                /\ event' = "resumed"
    /\ UNCHANGED <<schema, conv, graphVars, driverVars, engine, db, calls>>

\* After the insert the parent table's foreign keys are struck from the
\* schema, as if they needed no further ensuring.
EnsureInsertDropsForeignKeys(p) ==
    /\ stack[p] # <<>>
    /\ retval[p] = "none"
    /\ Top(p).pc = "insert"
    /\ LET frame == Top(p)
           res == InsertParentRecord(engine, schema, db, schema[frame.table], frame.values)
       IN  /\ db' = res.db
           /\ retval' = [retval EXCEPT ![p] = IF res.err = "" THEN "ok" ELSE "err"]
           /\ event' = IF res.err # "" THEN "insert-error"
                       ELSE IF res.db = db THEN "insert-skipped" ELSE "inserted"
           /\ schema' = [schema EXCEPT ![frame.table].ForeignKeys = <<>>]
    /\ stack' = [stack EXCEPT ![p] = Pop(@)]
    /\ UNCHANGED <<conv, graphVars, driverVars, engine, calls>>

\* The adapter inserts the prepared parent row and returns.
EnsureInsert(p) ==
    /\ stack[p] # <<>>
    /\ retval[p] = "none"
    /\ Top(p).pc = "insert"
    /\ LET frame == Top(p)
           res == InsertParentRecord(engine, schema, db, schema[frame.table], frame.values)
       IN  /\ db' = res.db
           /\ retval' = [retval EXCEPT ![p] = IF res.err = "" THEN "ok" ELSE "err"]
           /\ event' = IF res.err # "" THEN "insert-error"
                       ELSE IF res.db = db THEN "insert-skipped" ELSE "inserted"
    /\ stack' = [stack EXCEPT ![p] = Pop(@)]
    /\ UNCHANGED <<schema, conv, graphVars, driverVars, engine, calls>>

ResolverStep(p) == EnsureProbe(p) \/ EnsureForeignKey(p) \/ EnsureReturn(p) \/ EnsureInsert(p)

-----------------------------------------------------------------------------
(* Resolver specification: one client calls EnsureParentRecordExists *)

EmptyDatabase == [t \in FamilyTables |-> {}]

EnsureInit ==
    /\ schema \in FamilySchemas
    /\ engine \in Engines
    /\ db = EmptyDatabase
    /\ stack = [p \in Clients |-> <<>>]
    /\ retval = [p \in Clients |-> "none"]
    /\ calls = 0
    /\ event = "none"
    /\ csv = NoFiles
    /\ hasHeader = FALSE
    /\ drv = IdleDriver
    /\ conv = NoConversion
    /\ graph = NoGraph
    /\ built = FALSE
    /\ firstSort = NoSort
    /\ lastSort = NoSort

EnsureNext ==
    \/ \E t \in FamilyTables, v \in KeyTexts : EnsureCall(1, t, v)
    \/ EnsureProbe(1)
    \/ EnsureForeignKey(1)
    \/ EnsureReturn(1)
    \/ EnsureInsert(1)

EnsureSpec == EnsureInit /\ [][EnsureNext]_vars

\* The importer is single-threaded and synchronous: a call that has been made
\* keeps executing.
FairEnsureSpec == EnsureSpec /\ WF_vars(ResolverStep(1))

-----------------------------------------------------------------------------
(* Synthesis specification: the resolver on parent tables of many kinds *)

\* Table 2: id, ref (references table 1) and code, none with a default.  What
\* code is depends on the kind: a member of the primary key (id, code); the
\* column of a unique constraint of its own, NOT NULL or nullable; a member of
\* the unique constraint (ref, code); no key at all, NOT NULL or nullable.
SynthParent(kind, keyType, refNullable) ==
    [TableName |-> 2,
     Columns |-> <<ColumnInfo("id", "INTEGER", FALSE, NoDefault),
                   ColumnInfo("ref", keyType, refNullable, NoDefault),
                   ColumnInfo("code", IF kind = "composite" THEN "INTEGER" ELSE "STRING",
                              kind \in {"uniqueNullable", "plainNullable"}, NoDefault)>>,
     PrimaryKeyColumns |-> IF kind = "composite" THEN <<"id", "code">> ELSE <<"id">>,
     UniqueKeyColumns |-> CASE kind \in {"unique", "uniqueNullable"} -> << <<"code">> >>
                            [] kind = "pair" -> << <<"ref", "code">> >>
                            [] OTHER -> <<>>,
     ForeignKeys |-> <<ForeignKeyInfo(2, "ref", 1, "id")>>]

\* Table 1 is its key alone, of the type of the column that references it;
\* table 3 references table 2.
SynthSchema(kind, keyType, refNullable) ==
    [t \in FamilyTables |->
        CASE t = 1 -> [TableName |-> 1,
                       Columns |-> <<ColumnInfo("id", keyType, FALSE, NoDefault)>>,
                       PrimaryKeyColumns |-> <<"id">>,
                       UniqueKeyColumns |-> <<>>,
                       ForeignKeys |-> <<>>]
          [] t = 2 -> SynthParent(kind, keyType, refNullable)
          [] OTHER -> FamilyTable(3, <<2>>, refNullable, FALSE)]

SynthSchemas ==
    {SynthSchema(kind, keyType, n) :
        kind \in {"composite", "unique", "uniqueNullable", "pair", "plain", "plainNullable"},
        keyType \in {"INTEGER", "STRING", "BOOLEAN"},
        n \in BOOLEAN}

SynthInit ==
    /\ schema \in SynthSchemas
    /\ engine \in Engines
    /\ db = EmptyDatabase
    /\ stack = [p \in Clients |-> <<>>]
    /\ retval = [p \in Clients |-> "none"]
    /\ calls = 0
    /\ event = "none"
    /\ csv = NoFiles
    /\ hasHeader = FALSE
    /\ drv = IdleDriver
    /\ conv = NoConversion
    /\ graph = NoGraph
    /\ built = FALSE
    /\ firstSort = NoSort
    /\ lastSort = NoSort

\* The resolver is called with a number, or with a number after a blank, which
\* the database reads as the number and strconv.ParseInt rejects.
SynthNext ==
    \/ \E t \in {2, 3}, v \in {"1", " 1"} : EnsureCall(1, t, v)
    \/ EnsureProbe(1)
    \/ EnsureForeignKey(1)
    \/ EnsureReturn(1)
    \/ EnsureInsert(1)

SynthSpec == SynthInit /\ [][SynthNext]_vars

-----------------------------------------------------------------------------
(* Properties of the graph specification *)

\* The tables of schemaInfo that table t references by a foreign key.
ParentsOf(schemaInfo, t) ==
    {fk.ForeignTableName : fk \in Range(schemaInfo[t].ForeignKeys)} \cap DOMAIN schemaInfo

\* The tables reachable from the tables in `frontier` along foreign keys.
RECURSIVE ReachableFrom(_, _, _)
ReachableFrom(schemaInfo, frontier, seen) ==
    LET next == UNION {ParentsOf(schemaInfo, t) : t \in frontier} \ seen
    IN  IF next = {} THEN seen ELSE ReachableFrom(schemaInfo, next, seen \cup next)

AncestorsOf(schemaInfo, t) == ReachableFrom(schemaInfo, {t}, {})

\* The foreign-key graph has no cycle; a table referencing itself is a cycle.
Acyclic(schemaInfo) == \A t \in DOMAIN schemaInfo : t \notin AncestorsOf(schemaInfo, t)

IndexOf(s, x) == CHOOSE i \in 1..Len(s) : s[i] = x

Sorted == lastSort # NoSort

\* C1: for an acyclic schema, in the order TopologicalSort returns every
\* parent table precedes every child table: for each foreign key of table X
\* that references a table Y of the schema, Y # X, index(Y) < index(X).
C1_ParentsPrecedeChildren ==
    (Sorted /\ Acyclic(schema)) =>
        \A x \in DOMAIN schema : \A y \in ParentsOf(schema, x) :
            y # x =>
                /\ x \in Range(lastSort.order)
                /\ y \in Range(lastSort.order)
                /\ IndexOf(lastSort.order, y) < IndexOf(lastSort.order, x)

\* A chain 3 -> 2 -> 1 of foreign keys has been sorted.
C1_Witness ==
    /\ Sorted
    /\ lastSort.err = ""
    /\ ParentsOf(schema, 3) = {2}
    /\ ParentsOf(schema, 2) = {1}
    /\ ParentsOf(schema, 1) = {}

\* C3: for a schema whose foreign-key graph has a cycle (several tables, or a
\* table referencing itself) TopologicalSort returns the cycle error and a
\* nil order, never a partial order.
C3_CycleIsAnError ==
    (Sorted /\ ~Acyclic(schema)) =>
        /\ lastSort.err = "cycle detected"
        /\ lastSort.order = <<>>

\* The three-table cycle 1 -> 2 -> 3 -> 1 has been sorted, with the error.
C3_Witness ==
    /\ Sorted
    /\ lastSort.err = "cycle detected"
    /\ ParentsOf(schema, 1) = {2}
    /\ ParentsOf(schema, 2) = {3}
    /\ ParentsOf(schema, 3) = {1}

\* A table whose only foreign key references itself has been sorted, while
\* another table could have been ordered.
C3_SelfReferenceWitness ==
    /\ Sorted
    /\ lastSort.err = "cycle detected"
    /\ ParentsOf(schema, 1) = {1}
    /\ ParentsOf(schema, 2) = {}

\* C4: for an acyclic schema TopologicalSort returns no error and lists every
\* table of the schema exactly once, also with several foreign keys from one
\* child to the same parent and with foreign keys to tables outside the schema.
C4_EveryTableOnce ==
    (Sorted /\ Acyclic(schema)) =>
        /\ lastSort.err = ""
        /\ Len(lastSort.order) = Cardinality(DOMAIN schema)
        /\ Range(lastSort.order) = DOMAIN schema

\* Table 2 declares two foreign keys to table 1 and one to a table outside
\* the schema, and the schema has been sorted.
C4_Witness ==
    /\ Sorted
    /\ Acyclic(schema)
    /\ Len(schema[2].ForeignKeys) = 3
    /\ schema[2].ForeignKeys[1].ForeignTableName = 1
    /\ schema[2].ForeignKeys[2].ForeignTableName = 1
    /\ schema[2].ForeignKeys[3].ForeignTableName = Absent

\* C5: for a fixed acyclic schema every NewGraph(schema).TopologicalSort()
\* returns the same sequence, whatever the map iteration orders were.
C5_SortIsDeterministic ==
    (Sorted /\ Acyclic(schema)) => lastSort = firstSort

\* C29: a call of TopologicalSort leaves the graph as it was (every node's
\* InDegree and Edges), so that every call on the same Graph returns what the
\* first call on it returned.
C29_SortLeavesGraphUnchanged ==
    [][(built /\ calls' # calls)
          => /\ graph' = graph
             /\ firstSort # NoSort => lastSort' = firstSort]_vars

-----------------------------------------------------------------------------
(* PrepareInsertStatement: the statement a table's CSV rows are written with *)

NonKeyColumns(dbInfo) ==
    {i \in 1..Len(dbInfo.Columns) : dbInfo.Columns[i].ColumnName \notin Range(dbInfo.PrimaryKeyColumns)}

Prepared(kind) == [kind |-> kind, err |-> ""]

\* PostgresDB.PrepareInsertStatement
PostgresPrepare(dbInfo) ==
    IF Len(dbInfo.PrimaryKeyColumns) > 0
    THEN IF NonKeyColumns(dbInfo) # {} THEN Prepared("on-conflict-update")
         ELSE Prepared("on-conflict-nothing")
    ELSE Prepared("insert")

\* MySQLDB.PrepareInsertStatement
MySQLPrepare(dbInfo) ==
    IF Len(dbInfo.PrimaryKeyColumns) > 0
    THEN IF NonKeyColumns(dbInfo) # {} THEN Prepared("on-duplicate-key-update")
         ELSE Prepared("insert-ignore")
    ELSE Prepared("insert")

\* DB2DB.PrepareInsertStatement: a MERGE whose UPDATE SET list is empty is
\* not a statement, and Prepare rejects it.
DB2Prepare(dbInfo) ==
    IF Len(dbInfo.PrimaryKeyColumns) = 0 THEN Prepared("insert")
    ELSE IF NonKeyColumns(dbInfo) = {} THEN [kind |-> "merge", err |-> "failed to prepare MERGE statement"]
    ELSE Prepared("merge")

PrepareInsertStatement(eng, dbInfo) ==
    CASE eng = "postgres" -> PostgresPrepare(dbInfo)
      [] eng = "mysql" -> MySQLPrepare(dbInfo)
      [] OTHER -> DB2Prepare(dbInfo)

\* The rows of the table that agree with `row` on the constraint.
Conflicting(dbInfo, rows, row, constraint) ==
    {r \in rows : SameKey(dbInfo, r, row, constraint)}

\* The existing row becomes `updated`, unless that breaks a constraint.
ReplaceRow(schemaInfo, database, dbInfo, old, updated) ==
    LET others == database[dbInfo.TableName] \ {old}
    IN  IF NotNullViolation(dbInfo, updated) THEN Executed(database, "not-null violation")
        ELSE IF UniqueViolation(dbInfo, others, updated) THEN Executed(database, "duplicate key")
        ELSE IF ForeignKeyViolation(schemaInfo, database, dbInfo, updated)
             THEN Executed(database, "foreign key violation")
        ELSE Executed([database EXCEPT ![dbInfo.TableName] = others \cup {updated}], "")

\* `old` with its non-key columns set to those of `row`.
WithNonKeys(dbInfo, old, row) ==
    [i \in 1..Len(old) |-> IF i \in NonKeyColumns(dbInfo) THEN row[i] ELSE old[i]]

\* INSERT ... ON CONFLICT (pk) DO UPDATE SET non-key = EXCLUDED.non-key, and
\* MERGE ... ON pk WHEN MATCHED THEN UPDATE ... WHEN NOT MATCHED THEN INSERT.
UpsertOnPrimaryKey(schemaInfo, database, dbInfo, values) ==
    LET row == StoredRow(values)
        hit == Conflicting(dbInfo, database[dbInfo.TableName], row, dbInfo.PrimaryKeyColumns)
    IN  IF NotNullViolation(dbInfo, row) THEN Executed(database, "not-null violation")
        ELSE IF hit # {}
             THEN ReplaceRow(schemaInfo, database, dbInfo, CHOOSE r \in hit : TRUE,
                             WithNonKeys(dbInfo, CHOOSE r \in hit : TRUE, row))
        ELSE PlainInsert(schemaInfo, database, dbInfo, values)

\* INSERT ... ON CONFLICT (pk) DO NOTHING
InsertOnConflictKeyDoNothing(schemaInfo, database, dbInfo, values) ==
    LET row == StoredRow(values)
    IN  IF NotNullViolation(dbInfo, row) THEN Executed(database, "not-null violation")
        ELSE IF Conflicting(dbInfo, database[dbInfo.TableName], row, dbInfo.PrimaryKeyColumns) # {}
             THEN Executed(database, "")
        ELSE PlainInsert(schemaInfo, database, dbInfo, values)

\* INSERT ... ON DUPLICATE KEY UPDATE non-key = VALUES(non-key): the row that
\* collides on the primary key, else on a unique key, gets the new non-key
\* values.
InsertOnDuplicateKeyUpdate(schemaInfo, database, dbInfo, values) ==
    LET row == StoredRow(values)
        rows == database[dbInfo.TableName]
        onPK == Conflicting(dbInfo, rows, row, dbInfo.PrimaryKeyColumns)
        onUK == UNION {Conflicting(dbInfo, rows, row, uk) : uk \in Range(dbInfo.UniqueKeyColumns)}
        hit == IF onPK # {} THEN onPK ELSE onUK
    IN  IF NotNullViolation(dbInfo, row) THEN Executed(database, "not-null violation")
        ELSE IF hit # {}
             THEN ReplaceRow(schemaInfo, database, dbInfo, CHOOSE r \in hit : TRUE,
                             WithNonKeys(dbInfo, CHOOSE r \in hit : TRUE, row))
        ELSE PlainInsert(schemaInfo, database, dbInfo, values)

\* A failed statement takes the rows of its table with it.
ExecStatementRollsBack(kind, schemaInfo, database, dbInfo, values) ==
    LET done == PlainInsert(schemaInfo, database, dbInfo, values)
    IN  IF done.err # "" THEN Executed([database EXCEPT ![dbInfo.TableName] = {}], done.err)
        ELSE done

\* stmt.Exec(values...)
ExecStatement(kind, schemaInfo, database, dbInfo, values) ==
    CASE kind \in {"on-conflict-update", "merge"} -> UpsertOnPrimaryKey(schemaInfo, database, dbInfo, values)
      [] kind = "on-conflict-nothing" -> InsertOnConflictKeyDoNothing(schemaInfo, database, dbInfo, values)
      [] kind = "on-duplicate-key-update" -> InsertOnDuplicateKeyUpdate(schemaInfo, database, dbInfo, values)
      [] kind = "insert-ignore" -> InsertIgnore(schemaInfo, database, dbInfo, values)
      [] OTHER -> PlainInsert(schemaInfo, database, dbInfo, values)

-----------------------------------------------------------------------------
(* internal/importer: ImportCSVFiles and ImportSingleCSV *)

Reverse(s) == [i \in 1..Len(s) |-> s[Len(s) + 1 - i]]

\* How the files of the family spell a column name in their header line.
HeaderName(name) ==
    CASE name = "id" -> "ID"
      [] name = "ref" -> "Ref"
      [] name = "ref2" -> "REF2"
      [] OTHER -> name

\* Unicode simple case folding on the names of the model.
FoldCase(s) ==
    CASE s = "ID" -> "id"
      [] s \in {"Ref", "REF"} -> "ref"
      [] s = "REF2" -> "ref2"
      [] s = "CODE" -> "code"
      [] OTHER -> s

\* strings.EqualFold
EqualFold(a, b) == FoldCase(a) = FoldCase(b)

\* The columns the files of the family carry: the key and the references.
FileColumns(dbInfo) == SelectSeq(dbInfo.Columns, LAMBDA c : c.ColumnName # "code")

\* The data records a file of the table may hold, in the table's column
\* order: a key text, for the first reference a key text or nothing, for a
\* second reference the key "1" or nothing.
Records(dbInfo) ==
    {rec \in [1..Len(FileColumns(dbInfo)) -> KeyTexts \cup {""}] :
        /\ rec[1] # ""
        /\ \A i \in 3..Len(rec) : rec[i] \in {"", "1"}}

\* The file as written to disk: without header the fields stand in table
\* order; with a header the columns are written in the reverse order, under
\* header names that differ from the column names in letter case.
FileLine(rec, hdr) == IF hdr THEN Reverse(rec) ELSE rec

HeaderLine(dbInfo) ==
    Reverse([i \in 1..Len(FileColumns(dbInfo)) |-> HeaderName(FileColumns(dbInfo)[i].ColumnName)])

\* Every assignment of at most k data records to the tables' files.
RECURSIVE RecordSets(_, _)
RecordSets(schemaInfo, k) ==
    IF k = 0 THEN {[t \in FamilyTables |-> <<>>]}
    ELSE LET fewer == RecordSets(schemaInfo, k - 1)
         IN  fewer \cup UNION {{[c EXCEPT ![t] = Append(@, rec)] :
                                    c \in fewer, rec \in Records(schemaInfo[t])} : t \in FamilyTables}

\* The first record of the first file holds the key "1".
FirstKeyIsOne(c) ==
    \A t \in FamilyTables :
        (c[t] # <<>> /\ \A u \in FamilyTables : u < t => c[u] = <<>>) => c[t][1][1] = "1"

\* A file of the directory whose stem names no table of the schema.
StrayFile == << <<"1", "1">> >>

\* The CSV directory: a table with data records has a file, the others none;
\* and the stray file, under the name of the table that is absent.
CsvFiles(schemaInfo, hdr) ==
    {[t \in FamilyTables \cup {Absent} |->
         IF t = Absent THEN StrayFile
         ELSE IF c[t] = <<>> THEN <<>>
         ELSE (IF hdr THEN <<HeaderLine(schemaInfo[t])>> ELSE <<>>)
              \o [n \in 1..Len(c[t]) |-> FileLine(c[t][n], hdr)]] :
     c \in {r \in RecordSets(schemaInfo, MaxCsvRows) : FirstKeyIsOne(r)}}

\* A column is mapped to the last header column of its name, not the first.
ColumnMapLastMatch(dbInfo, csvHeader, hdr) ==
    [i \in 1..Len(dbInfo.Columns) |->
        IF ~hdr THEN i
        ELSE IF \E j \in 1..Len(csvHeader) : EqualFold(dbInfo.Columns[i].ColumnName, csvHeader[j])
        THEN CHOOSE j \in 1..Len(csvHeader) :
                /\ EqualFold(dbInfo.Columns[i].ColumnName, csvHeader[j])
                /\ \A k \in (j + 1)..Len(csvHeader) : ~EqualFold(dbInfo.Columns[i].ColumnName, csvHeader[k])
        ELSE 0]

\* columnMap: for each column of the table the CSV index (from 1) it is mapped
\* to, 0 when the map has no entry for it.
ColumnMap(dbInfo, csvHeader, hdr) ==
    [i \in 1..Len(dbInfo.Columns) |->
        IF ~hdr THEN i
        ELSE IF \E j \in 1..Len(csvHeader) : EqualFold(dbInfo.Columns[i].ColumnName, csvHeader[j])
        THEN CHOOSE j \in 1..Len(csvHeader) :
                /\ EqualFold(dbInfo.Columns[i].ColumnName, csvHeader[j])
                /\ \A k \in 1..(j - 1) : ~EqualFold(dbInfo.Columns[i].ColumnName, csvHeader[k])
        ELSE 0]

\* csvVal
RawValue(columnMap, i, record) ==
    IF columnMap[i] # 0 /\ columnMap[i] <= Len(record) THEN record[columnMap[i]] ELSE ""

\* The resolver is called for an empty value too.
RECURSIVE ForeignKeyStepEnsuresEmpty(_, _, _, _)
ForeignKeyStepEnsuresEmpty(schemaInfo, fks, columnName, csvVal) ==
    IF fks = <<>> THEN [kind |-> "none", fk |-> ForeignKeyInfo(0, "", 0, "")]
    ELSE IF Head(fks).ColumnName # columnName
         THEN ForeignKeyStepEnsuresEmpty(schemaInfo, Tail(fks), columnName, csvVal)
    ELSE IF Head(fks).ForeignTableName \notin DOMAIN schemaInfo THEN [kind |-> "fatal", fk |-> Head(fks)]
    ELSE [kind |-> "ensure", fk |-> Head(fks)]

\* The empty value is looked at before the referenced table is looked up.
RECURSIVE ForeignKeyStepEmptyFirst(_, _, _, _)
ForeignKeyStepEmptyFirst(schemaInfo, fks, columnName, csvVal) ==
    IF fks = <<>> THEN [kind |-> "none", fk |-> ForeignKeyInfo(0, "", 0, "")]
    ELSE IF Head(fks).ColumnName # columnName \/ csvVal = ""
         THEN ForeignKeyStepEmptyFirst(schemaInfo, Tail(fks), columnName, csvVal)
    ELSE IF Head(fks).ForeignTableName \notin DOMAIN schemaInfo THEN [kind |-> "fatal", fk |-> Head(fks)]
    ELSE [kind |-> "ensure", fk |-> Head(fks)]

\* The loop over dbInfo.ForeignKeys for one column: a foreign key on the
\* column whose table is missing is fatal; an empty value skips the key; the
\* first other key on the column is ensured and ends the loop.
RECURSIVE ForeignKeyStep(_, _, _, _)
ForeignKeyStep(schemaInfo, fks, columnName, csvVal) ==
    IF fks = <<>> THEN [kind |-> "none", fk |-> ForeignKeyInfo(0, "", 0, "")]
    ELSE IF Head(fks).ColumnName # columnName THEN ForeignKeyStep(schemaInfo, Tail(fks), columnName, csvVal)
    ELSE IF Head(fks).ForeignTableName \notin DOMAIN schemaInfo THEN [kind |-> "fatal", fk |-> Head(fks)]
    ELSE IF csvVal = "" THEN ForeignKeyStep(schemaInfo, Tail(fks), columnName, csvVal)
    ELSE [kind |-> "ensure", fk |-> Head(fks)]

\* The loop over dbInfo.Columns for one record, from column colIdx on, up to
\* the next call of the resolver, a fatal error, or the end of the columns;
\* `ensured` says the resolver has just returned for column colIdx.
RECURSIVE ProcessColumns(_, _, _, _, _, _, _)
ProcessColumns(schemaInfo, dbInfo, columnMap, record, colIdx, values, ensured) ==
    IF colIdx > Len(dbInfo.Columns) THEN [kind |-> "exec", colIdx |-> colIdx, values |-> values, fk |-> ForeignKeyInfo(0, "", 0, "")]
    ELSE LET colInfo == dbInfo.Columns[colIdx]
             csvVal == RawValue(columnMap, colIdx, record)
             step == ForeignKeyStep(schemaInfo, dbInfo.ForeignKeys, colInfo.ColumnName, csvVal)
         IN  IF ~ensured /\ step.kind # "none"
             THEN [kind |-> step.kind, colIdx |-> colIdx, values |-> values, fk |-> step.fk]
             ELSE ProcessColumns(schemaInfo, dbInfo, columnMap, record, colIdx + 1,
                      [values EXCEPT ![colIdx] =
                          ValueOrNil(ConvertToDBType(csvVal, colInfo.DataType, colInfo.IsNullable, colInfo.ColumnDefault))],
                      FALSE)

\* No table is passed over: the next table is taken whether it has a file or not.
NextFileNoSkip(files, order, from) == from

\* The index in the import order, from `from` on, of the next table that has
\* a CSV file; past the end when there is none.
RECURSIVE NextFile(_, _, _)
NextFile(files, order, from) ==
    IF from > Len(order) THEN from
    ELSE IF files[order[from]] # <<>> THEN from
    ELSE NextFile(files, order, from + 1)

\* ImportCSVFiles moves on to the next table with a file and ImportSingleCSV
\* reads its header and prepares its statement; or the import is complete.
EnterFile(d, from) ==
    LET idx == NextFile(csv, d.order, from)
    IN  IF idx > Len(d.order) THEN [d EXCEPT !.pc = "done", !.tblIdx = idx]
        ELSE LET prep == PrepareInsertStatement(engine, schema[d.order[idx]])
             IN  IF prep.err # "" THEN [d EXCEPT !.pc = "failed", !.tblIdx = idx]
                 ELSE [d EXCEPT !.pc = "rows", !.tblIdx = idx, !.rowIdx = 0, !.stmt = prep.kind]

CurrentTable == drv.order[drv.tblIdx]

FirstRecord == IF hasHeader THEN 2 ELSE 1

\* The record reader.Read() returns next; csv.Reader rejects a record whose
\* number of fields differs from that of the first line of the file.
CurrentRecord == csv[CurrentTable][drv.rowIdx + FirstRecord]

WrongFieldCount == Len(CurrentRecord) # Len(csv[CurrentTable][1])

MoreRecords == drv.rowIdx + FirstRecord <= Len(csv[CurrentTable])

CurrentColumnMap ==
    ColumnMap(schema[CurrentTable], IF hasHeader THEN csv[CurrentTable][1] ELSE <<>>, hasHeader)

\* What follows the loop over the columns: the fatal return, the call of the
\* resolver, or stmt.Exec and the next record. d is the driver as the record
\* was taken up; its `values` are the record's converted values and its
\* `resolved` the columns the resolver has been called for.
Proceed(d, res) ==
    CASE res.kind = "fatal" ->
            /\ drv' = [d EXCEPT !.pc = "failed"]
            /\ event' = "fatal"
            /\ UNCHANGED <<db, stack, retval>>
      [] res.kind = "ensure" ->
            /\ drv' = [d EXCEPT !.pc = "ensure", !.colIdx = res.colIdx, !.values = res.values,
                                !.resolved = @ \cup {res.colIdx}]
            /\ stack' = [stack EXCEPT ![1] = <<Frame(res.fk.ForeignTableName, res.fk.ForeignColumnName,
                                                    RawValue(CurrentColumnMap, res.colIdx, CurrentRecord))>>]
            /\ retval' = [retval EXCEPT ![1] = "none"]
            /\ event' = "call"
            /\ UNCHANGED db
      [] OTHER ->
            LET done == ExecStatement(drv.stmt, schema, db, schema[CurrentTable], res.values)
            IN  /\ db' = done.db
                /\ drv' = [d EXCEPT !.pc = "rows", !.rowIdx = @ + 1, !.colIdx = 0, !.values = res.values]
                /\ event' = IF done.err # "" THEN "row-rejected" ELSE "row-written"
                /\ retval' = [retval EXCEPT ![1] = "none"]
                /\ UNCHANGED stack

\* The results NewGraph(schema).TopologicalSort() can have, over the orders
\* in which the two `range` loops may visit their maps.
ImportOrders ==
    {TopologicalSort(NewGraph(schema, iter), zeros) :
        iter \in Orderings(DOMAIN schema), zeros \in Orderings(DOMAIN schema)}

\* The error of TopologicalSort is not looked at.
ImportCallIgnoresSortError ==
    /\ \E sorted \in ImportOrders :
          drv' = EnterFile([drv EXCEPT !.run = @ + 1, !.firstRun = db, !.order = sorted.order], 1)
    /\ event' = "import"
    /\ UNCHANGED <<schema, conv, graphVars, engine, db, stack, retval, calls, csv, hasHeader>>

\* ImportCSVFiles from its call up to the first record of the first file.
ImportCall ==
    /\ \E sorted \in ImportOrders :
          LET called == [drv EXCEPT !.run = @ + 1, !.firstRun = db]
          IN  drv' = IF sorted.err # "" THEN [called EXCEPT !.pc = "failed"]
                     ELSE EnterFile([called EXCEPT !.order = sorted.order], 1)
    /\ event' = "import"
    /\ UNCHANGED <<schema, conv, graphVars, engine, db, stack, retval, calls, csv, hasHeader>>

ImportStart == drv.pc = "idle" /\ ImportCall

\* The identical import is run a second time.
ImportAgain == drv.pc = "done" /\ drv.run = 1 /\ ImportCall

\* One record of the current file, from reader.Read() on.
ImportRecord ==
    /\ drv.pc = "rows"
    /\ MoreRecords
    /\ IF WrongFieldCount
       THEN /\ drv' = [drv EXCEPT !.pc = "failed"]
            /\ event' = "fatal"
            /\ UNCHANGED <<db, stack, retval>>
       ELSE Proceed([drv EXCEPT !.values = <<>>, !.resolved = {}],
                    ProcessColumns(schema, schema[CurrentTable], CurrentColumnMap, CurrentRecord, 1,
                                   [i \in 1..Len(schema[CurrentTable].Columns) |-> NULL], FALSE))
    /\ UNCHANGED <<schema, conv, graphVars, engine, calls, csv, hasHeader>>

\* The error EnsureParentRecordExists returned is only logged and the record
\* is processed further.
ImportResumeIgnoresError ==
    /\ drv.pc = "ensure"
    /\ stack[1] = <<>>
    /\ retval[1] # "none"
    /\ Proceed(drv, ProcessColumns(schema, schema[CurrentTable], CurrentColumnMap, CurrentRecord,
                                   drv.colIdx, drv.values, TRUE))
    /\ UNCHANGED <<schema, conv, graphVars, engine, calls, csv, hasHeader>>

\* EnsureParentRecordExists has returned to ImportSingleCSV.
ImportResume ==
    /\ drv.pc = "ensure"
    /\ stack[1] = <<>>
    /\ retval[1] # "none"
    /\ IF retval[1] = "err"
       THEN /\ drv' = [drv EXCEPT !.pc = "failed"]
            /\ event' = "fatal"
            /\ UNCHANGED <<db, stack, retval>>
       ELSE Proceed(drv, ProcessColumns(schema, schema[CurrentTable], CurrentColumnMap, CurrentRecord,
                                        drv.colIdx, drv.values, TRUE))
    /\ UNCHANGED <<schema, conv, graphVars, engine, calls, csv, hasHeader>>

\* reader.Read() returns io.EOF: ImportSingleCSV returns nil.
ImportFileEnd ==
    /\ drv.pc = "rows"
    /\ ~MoreRecords
    /\ drv' = EnterFile(drv, drv.tblIdx + 1)
    /\ event' = "file-end"
    /\ UNCHANGED <<schema, conv, graphVars, engine, db, stack, retval, calls, csv, hasHeader>>

-----------------------------------------------------------------------------
(* Import specification: ImportCSVFiles on a CSV directory *)

Init ==
    /\ schema \in ImportSchemas
    /\ engine \in Engines
    /\ hasHeader \in BOOLEAN
    /\ csv \in CsvFiles(schema, hasHeader)
    /\ db = EmptyDatabase
    /\ stack = [p \in Clients |-> <<>>]
    /\ retval = [p \in Clients |-> "none"]
    /\ calls = 0
    /\ event = "none"
    /\ drv = IdleDriver
    /\ conv = NoConversion
    /\ graph = NoGraph
    /\ built = FALSE
    /\ firstSort = NoSort
    /\ lastSort = NoSort

Next ==
    \/ ImportStart
    \/ ImportRecord
    \/ ImportResume
    \/ ImportFileEnd
    \/ EnsureProbe(1)
    \/ EnsureForeignKey(1)
    \/ EnsureReturn(1)
    \/ EnsureInsert(1)

Spec == Init /\ [][Next]_vars

\* The import followed by a second, identical import.
RerunNext == Next \/ ImportAgain

RerunSpec == Init /\ [][RerunNext]_vars

-----------------------------------------------------------------------------
(* Record specification: ImportSingleCSV on files with lines of any width *)

\* The texts a line of the file of table 3 may hold at each position: at the
\* first a key or a word that is no number, at the second and the third a key
\* or nothing.
RecordFields == << {"1", "x"}, {"", "1"}, {"", "2"} >>

\* The lines of the file: one, two or three fields.
RecordLines ==
    UNION {{line \in [1..k -> {"", "1", "2", "x"}] : \A i \in 1..k : line[i] \in RecordFields[i]} :
              k \in 1..Len(RecordFields)}

\* The header lines of the file: the key only; the key and the reference; the
\* reference named twice; a column that is no column of the table.
RecordHeaders == {<<"ID">>, <<"ID", "Ref">>, <<"ID", "REF", "ref">>, <<"ID", "extra", "Ref">>}

\* Every sequence of at most k lines.
RECURSIVE LineSeqs(_)
LineSeqs(k) ==
    IF k = 0 THEN {<<>>}
    ELSE LET fewer == LineSeqs(k - 1)
         IN  fewer \cup {Append(f, line) : f \in {g \in fewer : Len(g) = k - 1}, line \in RecordLines}

\* The CSV directory: the file of table 3 and the stray file.
RecordFiles(hdr) ==
    {[t \in FamilyTables \cup {Absent} |->
         IF t = Absent THEN StrayFile
         ELSE IF t # 3 THEN <<>>
         ELSE (IF hdr THEN <<h>> ELSE <<>>) \o f] :
     h \in RecordHeaders, f \in LineSeqs(MaxCsvRows) \ {<<>>}}

RecordInit ==
    /\ schema \in {FamilySchema("chain", n, FALSE) : n \in BOOLEAN}
    /\ engine \in Engines
    /\ hasHeader \in BOOLEAN
    /\ csv \in RecordFiles(hasHeader)
    /\ db = EmptyDatabase
    /\ stack = [p \in Clients |-> <<>>]
    /\ retval = [p \in Clients |-> "none"]
    /\ calls = 0
    /\ event = "none"
    /\ drv = IdleDriver
    /\ conv = NoConversion
    /\ graph = NoGraph
    /\ built = FALSE
    /\ firstSort = NoSort
    /\ lastSort = NoSort

RecordSpec == RecordInit /\ [][Next]_vars

-----------------------------------------------------------------------------
(* Race specification: two importers ensure the same missing parent key *)

\* Both importers have called EnsureParentRecordExists for the key v of table
\* t; every statement either of them sends is atomic, their order is free.
RaceInit ==
    /\ schema \in FamilySchemas
    /\ engine \in Engines
    /\ db = EmptyDatabase
    /\ \E t \in FamilyTables, v \in KeyTexts : stack = [p \in Clients |-> <<Frame(t, "id", v)>>]
    /\ retval = [p \in Clients |-> "none"]
    /\ calls = Cardinality(Clients)
    /\ event = "call"
    /\ csv = NoFiles
    /\ hasHeader = FALSE
    /\ drv = IdleDriver
    /\ conv = NoConversion
    /\ graph = NoGraph
    /\ built = FALSE
    /\ firstSort = NoSort
    /\ lastSort = NoSort

RaceNext ==
    \/ \E p \in Clients : EnsureProbe(p)
    \/ \E p \in Clients : EnsureForeignKey(p)
    \/ \E p \in Clients : EnsureReturn(p)
    \/ \E p \in Clients : EnsureInsert(p)

RaceSpec == RaceInit /\ [][RaceNext]_vars

-----------------------------------------------------------------------------
(* Conversion specification: ConvertToDBType called on its own *)

\* ColumnDataType; "UNKNOWN" is UnknownType.
DataTypes == {"STRING", "INTEGER", "FLOAT", "BOOLEAN", "DATE", "TIMESTAMP", "UNKNOWN"}

\* The raw texts a conversion is called with.
RawTexts == {"", "1", "x", "1.5", "yes", "2024-01-02", "2024-01-02 03:04:05"}

\* The column defaults a conversion is called with: none, the empty text, a
\* number, a word.
ColumnDefaults == {NoDefault, NullString(TRUE, ""), NullString(TRUE, "2"), NullString(TRUE, "d")}

ConvertInit ==
    /\ conv \in [pc : {"called"}, csvValue : RawTexts, dataType : DataTypes, isNullable : BOOLEAN,
                 columnDefault : ColumnDefaults, result : {Converted(NULL)}]
    /\ schema = [t \in Tables |-> BareTable(t)]
    /\ graph = NoGraph
    /\ built = FALSE
    /\ firstSort = NoSort
    /\ lastSort = NoSort
    /\ engine = "postgres"
    /\ db = [t \in Tables |-> {}]
    /\ stack = [p \in Clients |-> <<>>]
    /\ retval = [p \in Clients |-> "none"]
    /\ calls = 0
    /\ event = "none"
    /\ csv = NoFiles
    /\ hasHeader = FALSE
    /\ drv = IdleDriver

\* ConvertToDBType returns.
ConvertReturn ==
    /\ conv.pc = "called"
    /\ conv' = [conv EXCEPT !.pc = "returned",
                            !.result = ConvertToDBType(conv.csvValue, conv.dataType,
                                                       conv.isNullable, conv.columnDefault)]
    /\ UNCHANGED <<schema, graphVars, resolverVars, driverVars>>

ConvertNext == ConvertReturn

ConvertSpec == ConvertInit /\ [][ConvertNext]_vars

-----------------------------------------------------------------------------
(* Type specification: ParseDataType called on its own *)

\* The type names the catalogs may report, each in lower case, in upper case
\* and capitalised: the names ParseDataType knows and some it does not know.
TypeSpellings ==
    <<  <<"text", "TEXT", "Text">>, <<"character varying", "CHARACTER VARYING", "Character Varying">>,
        <<"varchar", "VARCHAR", "Varchar">>, <<"char", "CHAR", "Char">>,
        <<"character", "CHARACTER", "Character">>, <<"clob", "CLOB", "Clob">>,
        <<"graphic", "GRAPHIC", "Graphic">>, <<"vargraphic", "VARGRAPHIC", "Vargraphic">>,
        <<"long vargraphic", "LONG VARGRAPHIC", "Long Vargraphic">>,
        <<"integer", "INTEGER", "Integer">>, <<"smallint", "SMALLINT", "Smallint">>,
        <<"bigint", "BIGINT", "Bigint">>, <<"int", "INT", "Int">>, <<"numeric", "NUMERIC", "Numeric">>,
        <<"decimal", "DECIMAL", "Decimal">>, <<"real", "REAL", "Real">>,
        <<"double precision", "DOUBLE PRECISION", "Double Precision">>,
        <<"double", "DOUBLE", "Double">>, <<"decfloat", "DECFLOAT", "Decfloat">>,
        <<"float", "FLOAT", "Float">>, <<"boolean", "BOOLEAN", "Boolean">>, <<"bool", "BOOL", "Bool">>,
        <<"date", "DATE", "Date">>,
        <<"timestamp without time zone", "TIMESTAMP WITHOUT TIME ZONE", "Timestamp Without Time Zone">>,
        <<"timestamp with time zone", "TIMESTAMP WITH TIME ZONE", "Timestamp With Time Zone">>,
        <<"timestamp", "TIMESTAMP", "Timestamp">>, <<"time", "TIME", "Time">>,
        <<"json", "JSON", "Json">>, <<"uuid", "UUID", "Uuid">>, <<"int4", "INT4", "Int4">>,
        <<"datetime", "DATETIME", "Datetime">>, <<"varchar(100)", "VARCHAR(100)", "Varchar(100)">>,
        <<"serial", "SERIAL", "Serial">> >>

\* The empty name has one spelling.
TypeNames == UNION {Range(row) : row \in Range(TypeSpellings)} \cup {""}

\* strings.ToLower on the type names.
ToLowerName(s) ==
    IF \E row \in Range(TypeSpellings) : s \in Range(row)
    THEN (CHOOSE row \in Range(TypeSpellings) : s \in Range(row))[1]
    ELSE s

\* Compared without lowering the name first.
ParseDataTypeExact(dbType) ==
    CASE dbType \in {"text", "varchar", "char", "clob"} -> "STRING"
      [] dbType \in {"integer", "smallint", "bigint", "int"} -> "INTEGER"
      [] dbType \in {"numeric", "decimal", "real", "double", "float"} -> "FLOAT"
      [] dbType \in {"boolean", "bool"} -> "BOOLEAN"
      [] dbType = "date" -> "DATE"
      [] dbType \in {"timestamp", "time"} -> "TIMESTAMP"
      [] OTHER -> "UNKNOWN"

ParseDataType(dbType) ==
    LET lowerDbType == ToLowerName(dbType)
    IN  CASE lowerDbType \in {"text", "character varying", "varchar", "char", "character", "clob",
                              "graphic", "vargraphic", "long vargraphic"} -> "STRING"
          [] lowerDbType \in {"integer", "smallint", "bigint", "int"} -> "INTEGER"
          [] lowerDbType \in {"numeric", "decimal", "real", "double precision", "double",
                              "decfloat", "float"} -> "FLOAT"
          [] lowerDbType \in {"boolean", "bool"} -> "BOOLEAN"
          [] lowerDbType \in {"date"} -> "DATE"
          [] lowerDbType \in {"timestamp without time zone", "timestamp with time zone",
                              "timestamp", "time"} -> "TIMESTAMP"
          [] OTHER -> "UNKNOWN"

\* ParseDataType has been called with a type name.
TypeInit ==
    /\ conv \in [pc : {"called"}, dbType : TypeNames, result : {"UNKNOWN"}]
    /\ schema = [t \in Tables |-> BareTable(t)]
    /\ graph = NoGraph
    /\ built = FALSE
    /\ firstSort = NoSort
    /\ lastSort = NoSort
    /\ engine = "postgres"
    /\ db = [t \in Tables |-> {}]
    /\ stack = [p \in Clients |-> <<>>]
    /\ retval = [p \in Clients |-> "none"]
    /\ calls = 0
    /\ event = "none"
    /\ csv = NoFiles
    /\ hasHeader = FALSE
    /\ drv = IdleDriver

\* ParseDataType returns.
TypeReturn ==
    /\ conv.pc = "called"
    /\ conv' = [conv EXCEPT !.pc = "returned", !.result = ParseDataType(conv.dbType)]
    /\ UNCHANGED <<schema, graphVars, resolverVars, driverVars>>

TypeNext == TypeReturn

TypeSpec == TypeInit /\ [][TypeNext]_vars

-----------------------------------------------------------------------------
(* Properties of the resolver specification *)

\* The number of tables on the longest foreign-key chain that starts at table
\* t, t included; exact for an acyclic schema when fuel is the number of tables.
RECURSIVE LongestChain(_, _, _)
LongestChain(schemaInfo, t, fuel) ==
    IF fuel = 0 THEN 0
    ELSE LET below == {LongestChain(schemaInfo, u, fuel - 1) : u \in ParentsOf(schemaInfo, t)} \cup {0}
         IN  1 + CHOOSE n \in below : \A m \in below : m <= n

Running(p) == stack[p] # <<>>

AtProbe(p) == Running(p) /\ retval[p] = "none" /\ Top(p).pc = "probe"

AtInsert(p) == Running(p) /\ retval[p] = "none" /\ Top(p).pc = "insert"

DepthWithinChain ==
    \A p \in Clients :
        Running(p) => Len(stack[p]) <= LongestChain(schema, stack[p][1].table, Cardinality(DOMAIN schema))

\* C8: for an acyclic schema every call of EnsureParentRecordExists
\* terminates, and the depth of its recursion never exceeds the number of
\* tables on the longest foreign-key chain starting at the table it was
\* called for.
C8_EnsureTerminatesWithinChain ==
    /\ [](Acyclic(schema) => DepthWithinChain)
    /\ ((Acyclic(schema) /\ Running(1)) ~> ~Running(1))

\* The recursion has reached the full length of the chain 3 -> 2 -> 1.
C8_Witness ==
    /\ Acyclic(schema)
    /\ Len(stack[1]) = 3
    /\ stack[1][1].table = 3
    /\ Top(1).table = 1

\* The foreign keys of the activation's table whose prepared value is not nil.
ReferencingKeys(frame) ==
    {k \in 1..Len(schema[frame.table].ForeignKeys) :
        LET idx == ColumnIndex(schema[frame.table], schema[frame.table].ForeignKeys[k].ColumnName)
        IN  idx # 0 /\ frame.values[idx] # NULL}

\* The row the foreign key k of the activation's prepared row references is there.
ReferencedRowExists(frame, k) ==
    LET fk == schema[frame.table].ForeignKeys[k]
        v == frame.values[ColumnIndex(schema[frame.table], fk.ColumnName)]
    IN  /\ fk.ForeignTableName \in DOMAIN schema
        /\ RowWith(schema, db, fk.ForeignTableName, fk.ForeignColumnName, StoredCell(v))

EnsuredBeforeInsert ==
    \A p \in Clients :
        AtInsert(p) => \A k \in ReferencingKeys(Top(p)) :
                           k \in Top(p).ensured /\ ReferencedRowExists(Top(p), k)

ErrorIsReturned ==
    \A p \in Clients :
        (Running(p) /\ retval[p] = "err" /\ stack'[p] # stack[p])
            => (stack'[p] = Pop(stack[p]) /\ retval'[p] = "err" /\ db' = db)

\* C9: when the resolver inserts a synthesized row R, the recursive ensure for
\* every foreign key of R with a non-null value has returned success before,
\* so every row R references exists at that moment; and when a recursive
\* ensure returns an error, R is not inserted and the error goes to the caller.
C9_ParentsEnsuredBeforeInsert == []EnsuredBeforeInsert /\ [][ErrorIsReturned]_vars

\* C10: when the existence probe finds a row holding the value, the call
\* returns success at once and the database is unchanged: nothing is inserted
\* and no recursive call is made.
C10_ProbeHitChangesNothing ==
    [][\A p \in Clients :
          (AtProbe(p)
           /\ ParentRecordExists(db, schema[Top(p).table], Top(p).column, Top(p).value).exists
           /\ stack'[p] # stack[p])
              => (db' = db /\ stack'[p] = Pop(stack[p]) /\ retval'[p] = "ok")]_vars

\* A probe has just found the row an earlier call created.
C10_Witness ==
    /\ event = "probe-hit"
    /\ retval[1] = "ok"
    /\ \E t \in DOMAIN db : db[t] # {}

\* The rows of the activation's table that hold the key it was called for.
RowsWithKey(database, frame) ==
    {r \in database[frame.table] :
        r[ColumnIndex(schema[frame.table], frame.column)]
            = StoredCell(ParseValue(frame.value, "INTEGER").val)}

\* C7: when an importer that probed a key as missing reaches its insert after
\* another importer has created the row, the duplicate is not reported as an
\* error: the call succeeds and the table holds exactly one row with the key,
\* whichever engine adapter is used.
C7_DuplicateInsertIsBenign ==
    [][\A p \in Clients :
          (AtInsert(p) /\ RowsWithKey(db, Top(p)) # {} /\ stack'[p] # stack[p])
              => (retval'[p] = "ok" /\ Cardinality(RowsWithKey(db', Top(p))) = 1)]_vars

-----------------------------------------------------------------------------
(* Properties of the import specifications *)

\* The value of the column named col as the database compares it with a row:
\* the text cast to the column's type.
KeyValue(dbInfo, col, v) ==
    StoredCell(ParseValue(v, dbInfo.Columns[ColumnIndex(dbInfo, col)].DataType).val)

\* The rows of the referenced table that hold the key text v.
ReferencedRows(fk, v) ==
    {r \in db[fk.ForeignTableName] :
        r[ColumnIndex(schema[fk.ForeignTableName], fk.ForeignColumnName)]
            = KeyValue(schema[fk.ForeignTableName], fk.ForeignColumnName, v)}

\* The foreign keys of table t whose referenced table is in the schema.
ResolvableKeys(t) ==
    {fk \in Range(schema[t].ForeignKeys) : fk.ForeignTableName \in DOMAIN schema}

\* The raw value of the record for the column the foreign key is declared on.
ForeignKeyText(t, fk, record) ==
    RawValue(ColumnMap(schema[t], IF hasHeader THEN csv[t][1] ELSE <<>>, hasHeader),
             ColumnIndex(schema[t], fk.ColumnName), record)

\* This step executes stmt.Exec for the current record.
ExecutesInsert ==
    /\ drv.pc \in {"rows", "ensure"}
    /\ drv'.pc = "rows"
    /\ drv'.rowIdx = drv.rowIdx + 1

\* C2: whenever the import driver executes the insert of a child row whose
\* foreign-key column holds a non-empty CSV value v (the resolver call for the
\* column having returned success), the referenced table holds a row whose
\* referenced column equals v.
C2_ChildInsertFindsParent ==
    [][ExecutesInsert =>
          \A fk \in ResolvableKeys(CurrentTable) :
              ForeignKeyText(CurrentTable, fk, CurrentRecord) # ""
                  => ReferencedRows(fk, ForeignKeyText(CurrentTable, fk, CurrentRecord)) # {}]_vars

\* The data records of the file of table t.
DataRecords(t) == {csv[t][n] : n \in FirstRecord..Len(csv[t])}

\* Every parent key a CSV record references is held by exactly one row.
ReferencedOnce ==
    \A t \in FamilyTables : \A fk \in ResolvableKeys(t) : \A record \in DataRecords(t) :
        ForeignKeyText(t, fk, record) # ""
            => Cardinality(ReferencedRows(fk, ForeignKeyText(t, fk, record))) = 1

\* Every key a stored row references, a synthesized parent's grandparent key
\* included, is held by exactly one row.
GrandparentOnce ==
    \A t \in FamilyTables : \A fk \in ResolvableKeys(t) : \A r \in db[t] :
        r[ColumnIndex(schema[t], fk.ColumnName)] # NULL
            => Cardinality({g \in db[fk.ForeignTableName] :
                   g[ColumnIndex(schema[fk.ForeignTableName], fk.ForeignColumnName)]
                       = r[ColumnIndex(schema[t], fk.ColumnName)]}) = 1

\* The tables some foreign key references.
ParentTables == UNION {ParentsOf(schema, t) : t \in FamilyTables}

\* The second import has added no row to a parent or grandparent table.
NoRowAddedByRerun ==
    drv.run = 2 => \A t \in ParentTables : Cardinality(db[t]) = Cardinality(drv.firstRun[t])

\* C6: for an acyclic schema, after the import every parent key that child
\* rows reference is held by exactly one row of the parent table, and every
\* grandparent key a synthesized parent references by exactly one row of the
\* grandparent table; a second identical import adds no row to these tables.
C6_ExactlyOneParentRow ==
    (drv.pc = "done" /\ Acyclic(schema))
        => (ReferencedOnce /\ GrandparentOnce /\ NoRowAddedByRerun)

\* This step executes stmt.Exec for the current record and the statement fails.
StatementFails == drv.pc \in {"rows", "ensure"} /\ event' = "row-rejected"

FileChange == drv'.tblIdx # drv.tblIdx

\* C12: ImportCSVFiles takes the tables in the order TopologicalSort returned,
\* passing over exactly the tables that have no CSV file, without error; it
\* leaves a file only when every record of it has been read; the file whose
\* stem names no table of the schema is never opened, and moving from file to
\* file writes nothing to the database.
C12_FilesInSortOrder ==
    [][FileChange =>
          /\ drv'.tblIdx > drv.tblIdx
          /\ drv.tblIdx = 0 => drv'.order \in {sorted.order : sorted \in ImportOrders}
          /\ \A k \in (drv.tblIdx + 1)..(drv'.tblIdx - 1) : csv[drv'.order[k]] = <<>>
          /\ drv'.tblIdx <= Len(drv'.order)
                => /\ drv'.order[drv'.tblIdx] \in DOMAIN schema
                   /\ csv[drv'.order[drv'.tblIdx]] # <<>>
                   /\ drv'.pc = "failed"
                         => PrepareInsertStatement(engine, schema[drv'.order[drv'.tblIdx]]).err # ""
          /\ drv'.tblIdx > Len(drv'.order) => drv'.pc = "done"
          /\ drv.tblIdx >= 1 => (drv'.order = drv.order /\ drv.pc = "rows" /\ ~MoreRecords)
          /\ db' = db]_vars

\* The import is complete: the files of tables 1 and 3 have been imported, table
\* 2 has no file, and the stray file lies in the directory.
C12_Witness ==
    /\ drv.pc = "done"
    /\ csv[2] = <<>>
    /\ db[1] # {}
    /\ db[3] # {}
    /\ db[2] = {}
    /\ csv[Absent] = StrayFile
    /\ IndexOf(drv.order, 1) < IndexOf(drv.order, 3)

\* The foreign keys of table t whose referenced table is no key of the schema.
MissingTableKeys(t) ==
    {fk \in Range(schema[t].ForeignKeys) : fk.ForeignTableName \notin DOMAIN schema}

\* The resolver is at a foreign key of the synthesized row that references a
\* table missing from the schema, and the row holds a value for it.
AtMissingTable(p) ==
    /\ stack[p] # <<>>
    /\ retval[p] = "none"
    /\ Top(p).pc = "fks"
    /\ LET dbInfo == schema[Top(p).table]
           fk == dbInfo.ForeignKeys[Top(p).fkIdx]
       IN  /\ fk.ForeignTableName \notin DOMAIN schema
           /\ ColumnIndex(dbInfo, fk.ColumnName) # 0
           /\ Top(p).values[ColumnIndex(dbInfo, fk.ColumnName)] # NULL

\* C13: a foreign key whose referenced table is no key of the schema does not
\* make the sort fail; the first data record of the declaring table's file ends
\* the import with the missing-table error, whether its foreign-key value is
\* empty or not, and no record of that file is inserted; the resolver returns
\* the missing-table error when the synthesized row holds a value for such a key.
C13_MissingTableIsFatal ==
    [][/\ (drv.pc = "idle" /\ Acyclic(schema) /\ drv'.pc # "idle")
            => Len(drv'.order) = Cardinality(DOMAIN schema)
       /\ (drv.pc = "rows" /\ MoreRecords /\ MissingTableKeys(CurrentTable) # {} /\ drv' # drv)
            => (drv.rowIdx = 0 /\ drv'.pc = "failed" /\ event' = "fatal" /\ db' = db)
       /\ (AtMissingTable(1) /\ stack' # stack)
            => (stack'[1] = Pop(stack[1]) /\ retval'[1] = "err" /\ db' = db)]_vars

\* The import has failed on the first record of table 1, which references an
\* absent table and whose record leaves the reference empty.
C13_Witness ==
    /\ drv.pc = "failed"
    /\ event = "fatal"
    /\ drv.tblIdx >= 1
    /\ drv.tblIdx <= Len(drv.order)
    /\ MissingTableKeys(CurrentTable) # {}
    /\ drv.rowIdx = 0
    /\ \A fk \in MissingTableKeys(CurrentTable) : ForeignKeyText(CurrentTable, fk, CurrentRecord) = ""
    /\ db = EmptyDatabase

\* stmt.Exec has just been called for a record.
JustExecuted == drv.pc = "rows" /\ event \in {"row-written", "row-rejected"}

\* The record stmt.Exec has just been called for.
LastRecord == csv[CurrentTable][drv.rowIdx - 1 + FirstRecord]

\* The raw value the record holds for column i of the current table.
RawOf(i, record) == RawValue(CurrentColumnMap, i, record)

\* The columns of the current table that a foreign key to a table of the
\* schema is declared on.
ForeignKeyColumns ==
    {ColumnIndex(schema[CurrentTable], fk.ColumnName) : fk \in ResolvableKeys(CurrentTable)}

\* C14: the import driver calls the resolver for exactly the foreign-key columns
\* of a record whose raw value is not empty; the call is made with that raw
\* value, before the column's value is converted and before the record's
\* insert is executed; for an empty raw value no call is made.
C14_ResolverOnlyForNonEmptyKeys ==
    /\ drv.pc = "ensure"
          => /\ drv.colIdx \in ForeignKeyColumns
             /\ RawOf(drv.colIdx, CurrentRecord) # ""
             /\ drv.values[drv.colIdx] = NULL
             /\ \A c \in drv.resolved : RawOf(c, CurrentRecord) # ""
             /\ stack[1] # <<>> => stack[1][1].value = RawOf(drv.colIdx, CurrentRecord)
    /\ JustExecuted
          => drv.resolved = {c \in ForeignKeyColumns : RawOf(c, LastRecord) # ""}

\* A record of table 3 with a first reference and an empty second reference has
\* been written: the resolver was called for the first only, and the table the
\* second references is still empty.
C14_Witness ==
    /\ JustExecuted
    /\ event = "row-written"
    /\ CurrentTable = 3
    /\ Cardinality(ForeignKeyColumns) = 2
    /\ drv.resolved = {2}
    /\ RawOf(3, LastRecord) = ""
    /\ db[2] # {}
    /\ db[1] = {}

\* The driver is at a table of the import order.
InFile == drv.tblIdx >= 1 /\ drv.tblIdx <= Len(drv.order)

\* Every line of the file of table t has one non-empty field per column of
\* the table, and no two lines have the same key.
WellFormedFile(t) ==
    /\ \A n \in 1..Len(csv[t]) :
          /\ Len(csv[t][n]) = Len(schema[t].Columns)
          /\ \A i \in 1..Len(csv[t][n]) : csv[t][n][i] # ""
    /\ \A m, n \in 1..Len(csv[t]) : m # n => csv[t][m][1] # csv[t][n][1]

\* The row that line n of the file of table t stands for: the i-th column
\* holds the conversion of the i-th field.
LineRow(t, n) ==
    StoredRow([i \in 1..Len(schema[t].Columns) |->
                  LET colInfo == schema[t].Columns[i]
                  IN  ValueOrNil(ConvertToDBType(IF i <= Len(csv[t][n]) THEN csv[t][n][i] ELSE "",
                                                 colInfo.DataType, colInfo.IsNullable, colInfo.ColumnDefault))])

\* C18: without a header the first line of the file is a record, the i-th
\* column of the table takes the i-th field of every record, and once a file of
\* n well-formed lines with distinct keys has been read the table holds the n
\* rows of those lines.
C18_PositionalImport ==
    ~hasHeader =>
        /\ JustExecuted
              => StoredRow(drv.values) = LineRow(CurrentTable, drv.rowIdx)
        /\ (InFile /\ drv.pc = "rows" /\ ~MoreRecords /\ WellFormedFile(CurrentTable))
              => /\ \A n \in 1..Len(csv[CurrentTable]) : LineRow(CurrentTable, n) \in db[CurrentTable]
                 /\ Cardinality({LineRow(CurrentTable, n) : n \in 1..Len(csv[CurrentTable])})
                       = Len(csv[CurrentTable])

\* C30: on a schema whose foreign keys form a cycle ImportCSVFiles returns the
\* error of TopologicalSort before it opens a file, prepares a statement,
\* calls the resolver or executes an insert: the database is what it was
\* before the call.
C30_CycleStopsTheImport ==
    ~Acyclic(schema) =>
        /\ drv.pc \in {"idle", "failed"}
        /\ event \in {"none", "import"}
        /\ drv.pc = "failed" => (drv.run = 1 /\ db = drv.firstRun)
        /\ db = EmptyDatabase
        /\ drv.order = <<>> /\ drv.tblIdx = 0 /\ drv.rowIdx = 0 /\ drv.stmt = ""
        /\ stack[1] = <<>> /\ retval[1] = "none"

\* The import of a schema in which table 1 references table 3 has failed,
\* although the directory holds files with records.
C30_Witness ==
    /\ drv.pc = "failed"
    /\ event = "import"
    /\ ParentsOf(schema, 1) = {3}
    /\ \E t \in FamilyTables : csv[t] # <<>>
    /\ db = EmptyDatabase

\* EnsureParentRecordExists has returned an error to ImportSingleCSV.
ResolverFailed == drv.pc = "ensure" /\ stack[1] = <<>> /\ retval[1] = "err"

\* C26: when the resolver returns an error for a record, the import ends with
\* that error at once: the record is not inserted and what was written before
\* stays (the database is left as it is), and once the import has failed no
\* further record and no further table is processed.
C26_ResolverErrorIsFatal ==
    [][/\ (ResolverFailed /\ drv' # drv)
            => /\ drv'.pc = "failed"
               /\ event' = "fatal"
               /\ db' = db
               /\ drv'.tblIdx = drv.tblIdx
               /\ drv'.rowIdx = drv.rowIdx
       /\ drv.pc = "failed" => (drv' = drv /\ db' = db /\ stack' = stack)]_vars

\* The resolver failed on the second record of a file that is not the last
\* of the import order: the first record's row is in the table, the second
\* record's is not.
C26_Witness ==
    /\ drv.pc = "failed"
    /\ event = "fatal"
    /\ retval[1] = "err"
    /\ InFile
    /\ drv.rowIdx = 1
    /\ MoreRecords
    /\ Cardinality(db[CurrentTable]) = 1
    /\ LineRow(CurrentTable, 1) \in db[CurrentTable]
    /\ ~hasHeader
    /\ LineRow(CurrentTable, 2) \notin db[CurrentTable]

\* C24: no step of the import (the graph being built and sorted, the
\* resolver's probes, recursive calls and inserts, the records being read and
\* written, a second run) changes the schema map or a table's entry in it.
C24_SchemaIsReadOnly == [][schema' = schema]_vars

\* Two imports have run on a schema whose parent table holds a synthesized
\* row next to none from a file of its own.
C24_Witness ==
    /\ drv.pc = "done"
    /\ drv.run = 2
    /\ schema \in ImportSchemas
    /\ csv[2] = <<>>
    /\ db[2] # {}
    /\ db[3] # {}

\* stmt.Exec is called in this step, for the current record.
Executes == drv.pc \in {"rows", "ensure"} /\ drv'.pc = "rows" /\ drv'.rowIdx = drv.rowIdx + 1

\* The rows of the current table that hold the primary key of the row
\* stmt.Exec is called with.
SameKeyRows ==
    Conflicting(schema[CurrentTable], db[CurrentTable], StoredRow(drv'.values),
                schema[CurrentTable].PrimaryKeyColumns)

\* A statement that succeeds for a key the table holds replaces that row by
\* the new one and adds none.
ExistingRowIsReplaced ==
    (Executes /\ NonKeyColumns(schema[CurrentTable]) # {} /\ SameKeyRows # {} /\ event' = "row-written")
        => /\ db'[CurrentTable] = (db[CurrentTable] \ SameKeyRows) \cup {StoredRow(drv'.values)}
           /\ Cardinality(db'[CurrentTable]) = Cardinality(db[CurrentTable])
           /\ \A t \in FamilyTables \ {CurrentTable} : db'[t] = db[t]

\* On a table all of whose columns are key columns the statement keeps the
\* row the table holds and raises no error.
ExistingKeyIsKept ==
    (Executes /\ NonKeyColumns(schema[CurrentTable]) = {} /\ SameKeyRows # {})
        => (event' = "row-written" /\ db' = db)

\* The import has failed in PrepareInsertStatement.
PrepareFailed == drv.pc = "failed" /\ InFile /\ event # "fatal"

\* C23: on every engine the statement PrepareInsertStatement prepares for a
\* table with a primary key (every table of the family has one), executed
\* with the key of a row the table holds, replaces that row's non-key columns
\* and adds no row; on a table whose columns are all key columns it can be
\* prepared and executed too, keeps the row and raises no error.
C23_InsertUpdatesOnKeyConflict ==
    /\ [][ExistingRowIsReplaced /\ ExistingKeyIsKept]_vars
    /\ [](~PrepareFailed)

\* The resolver is about to insert the row it has prepared.
AtParentInsert == stack[1] # <<>> /\ retval[1] = "none" /\ Top(1).pc = "insert"

\* The column belongs to the primary key or to a unique constraint.
KeyColumn(dbInfo, name) == \E u \in UniqueConstraints(dbInfo) : name \in Range(u)

\* What the claim says column i of a row synthesized by the activation holds;
\* Unclaimed for the columns it does not speak of (keys, declared defaults, a
\* key text that has no conversion).
Unclaimed == [kind |-> "unclaimed", i |-> 0, s |-> ""]

ClaimedCell(frame, i) ==
    LET colInfo == schema[frame.table].Columns[i]
        key == ConvertToDBType(frame.value, colInfo.DataType, colInfo.IsNullable, colInfo.ColumnDefault)
    IN  IF colInfo.ColumnName = frame.column
        THEN IF key.err = "" THEN StoredCell(key.val) ELSE Unclaimed
        ELSE IF colInfo.ColumnDefault.Valid THEN Unclaimed
        ELSE IF colInfo.IsNullable THEN NULL
        ELSE IF KeyColumn(schema[frame.table], colInfo.ColumnName) THEN Unclaimed
        ELSE StoredCell(ZeroValue(colInfo.DataType).val)

RowAsClaimed(frame, row) ==
    \A i \in 1..Len(row) : ClaimedCell(frame, i) # Unclaimed => row[i] = ClaimedCell(frame, i)

\* C22: the row a parent insert adds holds the converted key in the
\* triggering column, NULL in the nullable columns without default and the
\* zero value of the type in the NOT NULL columns without default that belong
\* to no key; no step of the resolver removes or changes a row that is there,
\* the rows written from the parent's own file among them.
C22_SynthesizedRowContents ==
    [][/\ stack[1] # <<>> => \A t \in FamilyTables : db[t] \subseteq db'[t]
       /\ AtParentInsert =>
             /\ db'[Top(1).table] \ db[Top(1).table] \subseteq {row \in db'[Top(1).table] : RowAsClaimed(Top(1), row)}
             /\ Cardinality(db'[Top(1).table] \ db[Top(1).table]) <= 1]_vars

\* The file of table 2 has been imported, and a record of the file of table 3
\* that references a key missing from table 2 has made the resolver add a
\* row to table 2, beside the file's row; the new row has NULL or the zero
\* value in its reference to table 1.
C22_Witness ==
    /\ event = "inserted"
    /\ InFile
    /\ CurrentTable = 3
    /\ stack[1] = <<>>
    /\ ~hasHeader
    /\ Len(csv[2]) = 1
    /\ LineRow(2, 1) \in db[2]
    /\ Cardinality(db[2]) = 2
    /\ \E row \in db[2] \ {LineRow(2, 1)} : row[2] \in {NULL, Int64(0)}

-----------------------------------------------------------------------------
(* Properties of the record specification *)

\* ImportSingleCSV has returned an error from its loop over the records.
RecordIsFatal == drv.pc = "failed" /\ event = "fatal" /\ InFile /\ MoreRecords

\* ConvertToDBType for the raw text `raw` of column i of the current table.
ConversionOf(i, raw) ==
    LET colInfo == schema[CurrentTable].Columns[i]
    IN  ConvertToDBType(raw, colInfo.DataType, colInfo.IsNullable, colInfo.ColumnDefault)

ConversionFails(i, record) == ConversionOf(i, RawOf(i, record)).err # ""

ShortRecord(record) == Len(record) < Len(schema[CurrentTable].Columns)

\* C16: a record with fewer fields than the table has columns is imported: a
\* column mapped past the end of the record has the empty raw value, stmt.Exec
\* is called for the record, and the import does not fail because of it.
C16_ShortRowIsImported ==
    /\ (JustExecuted /\ ShortRecord(LastRecord))
          => \A i \in 1..Len(schema[CurrentTable].Columns) :
                CurrentColumnMap[i] > Len(LastRecord)
                    => drv.values[i] = ValueOrNil(ConversionOf(i, ""))
    /\ (RecordIsFatal /\ ShortRecord(CurrentRecord))
          => \/ retval[1] = "err"
             \/ MissingTableKeys(CurrentTable) # {}

\* The header columns whose name equals `name` ignoring letter case.
HeaderMatches(name) ==
    {j \in 1..Len(csv[CurrentTable][1]) : FoldCase(csv[CurrentTable][1][j]) = FoldCase(name)}

\* The field of the record under the first header column named `name`, the
\* empty text when no header column has the name.
FieldUnderHeader(name, record) ==
    IF HeaderMatches(name) = {} THEN ""
    ELSE record[CHOOSE j \in HeaderMatches(name) : \A k \in HeaderMatches(name) : j <= k]

\* C17: with a header, each column of the table takes its raw value from the
\* first header column whose name equals the column's name ignoring letter
\* case, and the empty text when there is none; the resolver is called with
\* that value, stmt.Exec with its conversion, and with one value per column of
\* the table, so that a CSV column matched by no column of the table is never
\* inserted.
C17_HeaderMatchIgnoresCase ==
    hasHeader =>
        /\ drv.pc = "ensure"
              => \A c \in drv.resolved :
                    FieldUnderHeader(schema[CurrentTable].Columns[c].ColumnName, CurrentRecord) # ""
        /\ (drv.pc = "ensure" /\ stack[1] # <<>>)
              => stack[1][1].value =
                    FieldUnderHeader(schema[CurrentTable].Columns[drv.colIdx].ColumnName, CurrentRecord)
        /\ JustExecuted
              => /\ Len(drv.values) = Len(schema[CurrentTable].Columns)
                 /\ \A i \in 1..Len(drv.values) :
                       drv.values[i] =
                          ValueOrNil(ConversionOf(i, FieldUnderHeader(schema[CurrentTable].Columns[i].ColumnName,
                                                                     LastRecord)))
                 /\ event = "row-written" => StoredRow(drv.values) \in db[CurrentTable]

\* Under the header ID, extra, Ref the record 1,1,2 was written as the row
\* (1, 2): the parent with the key 2 was ensured, none with the key 1.
C17_Witness ==
    /\ hasHeader
    /\ JustExecuted
    /\ event = "row-written"
    /\ csv[CurrentTable][1] = <<"ID", "extra", "Ref">>
    /\ LastRecord = <<"1", "1", "2">>
    /\ drv.values = <<Int64(1), Int64(2)>>
    /\ db[3] = {StoredRow(<<Int64(1), Int64(2)>>)}
    /\ \A r \in db[2] : r[1] = StoredCell(Int64(2))

-----------------------------------------------------------------------------
(* Properties of the conversion specification *)

Returned == conv.pc = "returned"

\* C19: for empty input ConvertToDBType returns null whenever the column is
\* nullable, even with a default declared; otherwise, with a default declared,
\* the conversion of the default text; otherwise the zero value of the type.
\* Non-empty input is converted as it is, never replaced by the default.
C19_EmptyInputRules ==
    Returned =>
        IF conv.csvValue # "" THEN conv.result = ParseValue(conv.csvValue, conv.dataType)
        ELSE IF conv.isNullable THEN conv.result = Converted(NULL)
        ELSE IF conv.columnDefault.Valid
             THEN /\ conv.result = ConvertToDBType(conv.columnDefault.String, conv.dataType,
                                                    conv.isNullable, conv.columnDefault)
                  /\ conv.columnDefault.String # ""
                        => conv.result = ParseValue(conv.columnDefault.String, conv.dataType)
        ELSE conv.result = ZeroValue(conv.dataType)

\* An empty input for a nullable column that declares a default has returned.
C19_Witness ==
    /\ Returned
    /\ conv.csvValue = ""
    /\ conv.isNullable
    /\ conv.columnDefault = NullString(TRUE, "2")
    /\ conv.dataType = "INTEGER"
    /\ conv.result = Converted(NULL)

\* C20: ConvertToDBType called with the UNKNOWN column type returns an error
\* for every raw text, nullability flag and default; never a value or null.
C20_UnknownTypeAlwaysErrors ==
    (Returned /\ conv.dataType = "UNKNOWN") => conv.result.err # ""

-----------------------------------------------------------------------------
(* Properties of the type specification *)

\* The lower-case names of the switch in ParseDataType.
KnownNames ==
    {"text", "character varying", "varchar", "char", "character", "clob", "graphic", "vargraphic",
     "long vargraphic", "integer", "smallint", "bigint", "int", "numeric", "decimal", "real",
     "double precision", "double", "decfloat", "float", "boolean", "bool", "date",
     "timestamp without time zone", "timestamp with time zone", "timestamp", "time"}

\* The names differ in letter case only.
SameButCase(a, b) == \E row \in Range(TypeSpellings) : a \in Range(row) /\ b \in Range(row)

\* C25: ParseDataType returns one of the canonical types for every name, the
\* same type for two names that differ in letter case only, and UNKNOWN for
\* every name that, lowered, is none of the names of its switch.
C25_ParseDataTypeIsTotal ==
    conv.pc = "returned" =>
        /\ conv.result \in DataTypes
        /\ \A other \in TypeNames : SameButCase(other, conv.dbType) => ParseDataType(other) = conv.result
        /\ (\A known \in KnownNames : ~SameButCase(known, conv.dbType) /\ known # conv.dbType)
              => conv.result = "UNKNOWN"

\* "Character Varying" has been parsed as STRING.
C25_Witness ==
    /\ conv.pc = "returned"
    /\ conv.dbType = "Character Varying"
    /\ conv.result = "STRING"

-----------------------------------------------------------------------------
(* Properties of the synthesis specification *)

\* The activations of the resolver that have prepared their parent row.
PreparedFrames == {k \in 1..Len(stack[1]) : stack[1][k].values # <<>>}

\* What the column holds in the prepared row when no value is generated for
\* it: the converted key, the converted default or the converted empty text.
PlainValue(frame, i) ==
    LET dbInfo == schema[frame.table]
        plain == [j \in 1..Len(dbInfo.Columns) |->
                    ValueOrNil(ConvertToDBType("", dbInfo.Columns[j].DataType,
                                               dbInfo.Columns[j].IsNullable,
                                               dbInfo.Columns[j].ColumnDefault))]
    IN  ParentValues(dbInfo, frame.column, frame.value, plain)[i]

HoldsRandomValue(frame, i) == frame.values[i] # PlainValue(frame, i)

\* The column is the whole primary key or the whole of a unique constraint.
SoleKeyColumn(dbInfo, name) ==
    dbInfo.PrimaryKeyColumns = <<name>> \/ <<name>> \in Range(dbInfo.UniqueKeyColumns)

\* C21: in a synthesized parent row a column holds a generated random value
\* only if it is not the triggering column, has no declared default, is NOT
\* NULL and is the sole column of the primary key or of a unique constraint; a
\* column that is only one member of a multi-column key holds none.
C21_RandomOnlyForSoleKeyColumns ==
    \A k \in PreparedFrames :
        LET frame == stack[1][k]
            dbInfo == schema[frame.table]
        IN  \A i \in 1..Len(dbInfo.Columns) :
                HoldsRandomValue(frame, i) =>
                    /\ dbInfo.Columns[i].ColumnName # frame.column
                    /\ ~dbInfo.Columns[i].ColumnDefault.Valid
                    /\ ~dbInfo.Columns[i].IsNullable
                    /\ SoleKeyColumn(dbInfo, dbInfo.Columns[i].ColumnName)

\* The activation in hand has a key text that has no conversion to the type of
\* its triggering column.
Unconvertible == stack[1] # <<>> /\ retval[1] = "none" /\ KeyConversion(Top(1)).err # ""

\* The probe of the activation in hand finds no row.
ProbeMisses ==
    /\ Top(1).pc = "probe"
    /\ ProbeOutcome(ParentRecordExists(db, schema[Top(1).table], Top(1).column, Top(1).value)) = "absent"

AtForeignKey == stack[1] # <<>> /\ retval[1] = "none" /\ Top(1).pc = "fks"

\* The foreign key in hand and the prepared value of the column that owns it.
ForeignKeyInHand == schema[Top(1).table].ForeignKeys[Top(1).fkIdx]

OwningValue(frame, fk) == frame.values[ColumnIndex(schema[frame.table], fk.ColumnName)]

\* The text of a prepared value: decimal digits, true or false, the string.
TextOf(v) ==
    CASE v \in {GoInt(0), Int64(0)} -> "0"
      [] v = Int64(1) -> "1"
      [] v = Bool(FALSE) -> "false"
      [] v = Bool(TRUE) -> "true"
      [] v.kind = "string" -> v.s
      [] OTHER -> "?"

\* The activation's loop has passed the foreign keys before fkIdx; each was
\* ensured by a recursive call exactly if its owning value is not NULL.
EnsuredExactlyNonNull(frame) ==
    \A k \in 1..Len(schema[frame.table].ForeignKeys) :
        k < frame.fkIdx =>
            (k \in frame.ensured <=> OwningValue(frame, schema[frame.table].ForeignKeys[k]) # NULL)

\* C28: while a parent row is synthesized, at each foreign key of the parent
\* table the resolver is invoked on the referenced table and column if the
\* prepared value of the owning column is not NULL (the zero values 0, "" and
\* false included), with the text of that value, and is not invoked if the
\* value is NULL; the insert is reached only after every foreign key has been
\* treated so.
C28_RecursionExactlyForNonNull ==
    /\ [](\A k \in PreparedFrames :
            /\ EnsuredExactlyNonNull(stack[1][k])
            /\ stack[1][k].pc = "insert" => stack[1][k].fkIdx = Len(schema[stack[1][k].table].ForeignKeys) + 1)
    /\ [][AtForeignKey =>
            IF OwningValue(Top(1), ForeignKeyInHand) = NULL
            THEN /\ Len(stack'[1]) = Len(stack[1])
                 /\ Top(1)'.fkIdx = Top(1).fkIdx + 1
                 /\ Top(1)'.ensured = Top(1).ensured
            ELSE /\ stack'[1] = Append(stack[1],
                                       Frame(ForeignKeyInHand.ForeignTableName, ForeignKeyInHand.ForeignColumnName,
                                             TextOf(OwningValue(Top(1), ForeignKeyInHand))))
                 /\ retval'[1] = "none"]_vars

\* The row of table 2 is prepared with false, the zero value of its NOT NULL
\* boolean reference, and the resolver has been invoked on table 1 with the
\* text "false".
C28_Witness ==
    /\ Len(stack[1]) = 2
    /\ event = "recurse"
    /\ stack[1][1].table = 2
    /\ stack[1][1].values[2] = Bool(FALSE)
    /\ Top(1) = Frame(1, "id", "false")

=============================================================================
